---- MODULE Spec2Model ----
(***************************************************************************)
(* The chain state engine of padlock-blockchain (src/padlock-blockchain):  *)
(* Blockchain::new, get_block, add_block and del_top_block over a          *)
(* key-value store, with the block, entry and Merkle functions they call.  *)
(*                                                                         *)
(* Conventions.                                                            *)
(*  - A byte string (Vec<u8>, [u8; n]) is a sequence over 0..255.          *)
(*  - Option<T> is a sequence of length 0 (None) or 1 (Some).              *)
(*  - An f32 is an exact extended rational <<n, d>> in lowest terms with   *)
(*    d >= 0: <<1,0>> is +inf, <<-1,0>> is -inf and <<0,0>> is NaN.        *)
(*    Rounding to 24 bits of mantissa is not modelled.                     *)
(*  - The three external hash primitives (RandomX, Blake2b-512,            *)
(*    VarBlake2b-224) are deterministic stand-ins with a 2-byte output.    *)
(***************************************************************************)
EXTENDS Integers, Sequences, FiniteSets, TLC

VARIABLES info, db, randomx_cache, op, arg, result, snapshot, undo, calls,
          merkle_tree, merkle_proof, new_layers, state, handlers,
          pending, swap_state

vars ==
    <<info, db, randomx_cache, op, arg, result, snapshot, undo, calls,
      merkle_tree, merkle_proof, new_layers, state, handlers, pending, swap_state>>

(***************************************************************************)
(* Bounds of the model.  The three window lengths are the source's         *)
(* constants scaled down so that a chain of MaxHeight blocks crosses them: *)
(* the source has RANDOMX_VM_KEY_LIFETIME = 10000 (lib.rs:29),             *)
(* PREVIOUS_BLOCKS_TO_CONSIDER = 750 (lib.rs:26) and a past-median offset  *)
(* of 11 (lib.rs:307).                                                     *)
(***************************************************************************)
MaxHeight == 4
RANDOMX_VM_KEY_LIFETIME == 2
PREVIOUS_BLOCKS_TO_CONSIDER == 3
MEDIAN_OFFSET == 2
MaxCalls == 6

(***************************************************************************)
(* Program constants.                                                      *)
(***************************************************************************)
BLOCK_TIME == 120
FUTURE_TOLERANCE == 3600
DEFAULT_BLOCK_SIZE_CAP == 250000

(***************************************************************************)
(* f32 arithmetic on extended rationals.                                   *)
(***************************************************************************)
Abs(x) == IF x < 0 THEN -x ELSE x

Sign(x) == IF x < 0 THEN -1 ELSE IF x > 0 THEN 1 ELSE 0

RECURSIVE Gcd(_, _)
Gcd(a, b) == IF b = 0 THEN a ELSE Gcd(b, a % b)

Norm(n, d) ==
    IF d = 0 THEN <<Sign(n), 0>>
    ELSE LET g == Gcd(Abs(n), Abs(d))
         IN  <<(Sign(d) * n) \div g, Abs(d) \div g>>

NaN == <<0, 0>>

IsNaN(x) == x = NaN

IsInf(x) == x[2] = 0 /\ x[1] # 0

FromInt(n) == <<n, 1>>

Ratio(n, d) == Norm(n, d)

FAdd(a, b) ==
    IF IsNaN(a) \/ IsNaN(b) THEN NaN
    ELSE IF IsInf(a) THEN (IF IsInf(b) /\ b # a THEN NaN ELSE a)
    ELSE IF IsInf(b) THEN b
    ELSE LET whole == (a[1] \div a[2]) + (b[1] \div b[2])
             part == Norm((a[1] % a[2]) * b[2] + (b[1] % b[2]) * a[2], a[2] * b[2])
         IN  <<whole * part[2] + part[1], part[2]>>

FMul(a, b) ==
    IF IsNaN(a) \/ IsNaN(b) THEN NaN ELSE Norm(a[1] * b[1], a[2] * b[2])

FDiv(a, b) ==
    IF IsNaN(a) \/ IsNaN(b) THEN NaN ELSE Norm(a[1] * b[2], a[2] * b[1])

\* a < b; every comparison with NaN is false
FLt(a, b) ==
    IF IsNaN(a) \/ IsNaN(b) THEN FALSE
    ELSE IF IsInf(a) /\ IsInf(b) THEN a[1] < b[1]
    ELSE IF IsInf(a) \/ IsInf(b) THEN a[1] * b[2] < b[1] * a[2]
    ELSE \/ a[1] \div a[2] < b[1] \div b[2]
         \/ /\ a[1] \div a[2] = b[1] \div b[2]
            /\ (a[1] % a[2]) * b[2] < (b[1] % b[2]) * a[2]

\* a == b; NaN is not equal to itself
FEq(a, b) == ~IsNaN(a) /\ ~IsNaN(b) /\ a = b

\* `x as u128`: truncates toward zero, NaN and negatives give 0.  +inf
\* saturates to u128::MAX, a value beyond the integers of this model: the
\* case is left out, as no accepted header carries +inf (a block with an
\* infinite target never has enough work).
AsU128(x) ==
    CASE IsNaN(x) -> 0
      [] x[2] # 0 /\ x[1] < 0 -> 0
      [] x = <<-1, 0>> -> 0
      [] x[2] # 0 /\ x[1] >= 0 -> x[1] \div x[2]

(***************************************************************************)
(* Bytes.                                                                  *)
(***************************************************************************)
Repeat(b, n) == [i \in 1..n |-> b]

RECURSIVE Pow2(_)
Pow2(n) == IF n = 0 THEN 1 ELSE 2 * Pow2(n - 1)

\* u8::leading_zeros
LeadingZeros8(b) ==
    IF b = 0 THEN 8
    ELSE CHOOSE k \in 0..7 : Pow2(7 - k) <= b /\ b < Pow2(8 - k)

\* usize::to_le_bytes / u64::to_le_bytes: 8 bytes, least significant first
RECURSIVE ToLeBytes(_, _)
ToLeBytes(n, width) ==
    IF width = 0 THEN <<>> ELSE <<n % 256>> \o ToLeBytes(n \div 256, width - 1)

ToLeBytes8(n) == ToLeBytes(n, 8)

RECURSIVE FromLeBytes(_)
FromLeBytes(bs) ==
    IF bs = <<>> THEN 0 ELSE bs[1] + 256 * FromLeBytes(Tail(bs))

\* f32::to_le_bytes: a 4-byte encoding of the rational (not the IEEE bits)
F32ToLeBytes(x) ==
    <<Abs(x[1]) % 256, (Abs(x[1]) \div 256) % 256, x[2] % 256,
      (IF x[1] < 0 THEN 128 ELSE 0) + ((x[2] \div 256) % 128)>>

RECURSIVE ConcatAll(_)
ConcatAll(ss) ==
    IF ss = <<>> THEN <<>>
    ELSE IF Len(ss) = 1 THEN ss[1]
    ELSE LET mid == Len(ss) \div 2
         IN  ConcatAll(SubSeq(ss, 1, mid)) \o ConcatAll(SubSeq(ss, mid + 1, Len(ss)))

\* stand-in for a cryptographic digest: a polynomial checksum modulo the
\* prime 32749, evaluated by halving so that long inputs nest only a few calls
RECURSIVE PowMod(_, _)
PowMod(base, n) ==
    IF n = 0 THEN 1
    ELSE LET half == PowMod(base, n \div 2)
         IN  IF n % 2 = 0 THEN (half * half) % 32749
             ELSE (((half * half) % 32749) * base) % 32749

RECURSIVE DigestRange(_, _, _)
DigestRange(bs, lo, hi) ==
    IF lo > hi THEN 0
    ELSE IF lo = hi THEN (bs[lo] + 7) % 32749
    ELSE LET mid == (lo + hi) \div 2
         IN  (DigestRange(bs, lo, mid) * PowMod(31, hi - mid)
                 + DigestRange(bs, mid + 1, hi)) % 32749

Digest16(bs) == DigestRange(bs, 1, Len(bs))

\* [0u8; 32] in the source; hashes are 3 bytes wide here
ZeroHash == <<0, 0, 0>>

(***************************************************************************)
(* Results: err is "Ok" or the error kind, val the returned value.         *)
(***************************************************************************)
Ok(v) == [err |-> "Ok", val |-> v]

Err(kind) == [err |-> kind, val |-> <<>>]

(***************************************************************************)
(* Entry (block.rs).                                                       *)
(***************************************************************************)
COINFILE_HASH_LEN == 8
OUTPUT_HASH_LEN == 8
PUBLIC_KEY_LEN == 48
MAX_COINFILE_HASHES == 255
MAX_PROOF_OF_WORK_LEN == 255

Entry_new(coinfile_hashes, output_hash, public_key, public_key_index, proof_of_work) ==
    [coinfile_hashes |-> coinfile_hashes, output_hash |-> output_hash,
     public_key |-> public_key, public_key_index |-> public_key_index,
     proof_of_work |-> proof_of_work]

Entry_to_bytes_flag_unset(e) ==
    IF Len(e.coinfile_hashes) > MAX_COINFILE_HASHES
    THEN Err("TooManyCoinfileHashes")
    ELSE IF e.public_key = <<>> /\ e.public_key_index = <<>>
    THEN Err("NoPublicKeyFound")
    ELSE IF Len(e.proof_of_work) > MAX_PROOF_OF_WORK_LEN
    THEN Err("PoWTooLong")
    ELSE Ok(<<Len(e.coinfile_hashes)>>
            \o ConcatAll(e.coinfile_hashes)
            \o e.output_hash
            \o (IF e.public_key # <<>>
                THEN <<0>> \o e.public_key[1]
                ELSE <<0>> \o ToLeBytes8(e.public_key_index[1]))
            \o <<Len(e.proof_of_work)>>
            \o e.proof_of_work)

Entry_to_bytes(e) ==
    IF Len(e.coinfile_hashes) > MAX_COINFILE_HASHES
    THEN Err("TooManyCoinfileHashes")
    ELSE IF e.public_key = <<>> /\ e.public_key_index = <<>>
    THEN Err("NoPublicKeyFound")
    ELSE IF Len(e.proof_of_work) > MAX_PROOF_OF_WORK_LEN
    THEN Err("PoWTooLong")
    ELSE Ok(<<Len(e.coinfile_hashes)>>
            \o ConcatAll(e.coinfile_hashes)
            \o e.output_hash
            \o (IF e.public_key # <<>>
                THEN <<0>> \o e.public_key[1]
                ELSE <<1>> \o ToLeBytes8(e.public_key_index[1]))
            \o <<Len(e.proof_of_work)>>
            \o e.proof_of_work)

\* Blake2b::digest, 64 bytes in the source
Blake2b(bytes) ==
    LET d == Digest16(bytes) IN <<d % 4, (d \div 4) % 256>>

Entry_hash(e) ==
    LET b == Entry_to_bytes(e)
    IN  IF b.err # "Ok" THEN b ELSE Ok(Blake2b(b.val))

\* the loop of Entry::difficulty: a byte without leading zeros ends it,
\* every other byte adds its leading zeros and the scan goes on
RECURSIVE EntryLeadingZeros(_, _)
EntryLeadingZeros(hash, i) ==
    IF i > Len(hash) THEN 0
    ELSE IF LeadingZeros8(hash[i]) = 0 THEN 0
    ELSE LeadingZeros8(hash[i]) + EntryLeadingZeros(hash, i + 1)

Entry_difficulty(e) ==
    LET h == Entry_hash(e)
    IN  IF h.err # "Ok" THEN h ELSE Ok(Pow2(EntryLeadingZeros(h.val, 1)))

(***************************************************************************)
(* The entries and entry lists the callers use (tests/test.rs make_entry), *)
(* and the entry functions tabulated over them: a table holds the values   *)
(* of the function it names and is consulted instead of evaluating it      *)
(* again.                                                                  *)
(***************************************************************************)
PublicKeyA == Repeat(4, PUBLIC_KEY_LEN)

PublicKeyB == Repeat(5, PUBLIC_KEY_LEN)

EntryA == Entry_new(<<Repeat(1, COINFILE_HASH_LEN)>>, Repeat(0, OUTPUT_HASH_LEN),
                    <<PublicKeyA>>, <<>>, <<2, 2, 2, 2>>)

EntryB == Entry_new(<<Repeat(2, COINFILE_HASH_LEN)>>, Repeat(0, OUTPUT_HASH_LEN),
                    <<PublicKeyB>>, <<>>, <<0>>)

\* an entry that names its public key by an index of the public-key table
EntryIdx == Entry_new(<<Repeat(3, COINFILE_HASH_LEN)>>, Repeat(0, OUTPUT_HASH_LEN),
                      <<>>, <<0>>, <<1>>)

\* EntryA with one byte of its proof of work changed: with the same
\* difficulty, and with another
EntryAByte == [EntryA EXCEPT !.proof_of_work = <<2, 2, 2, 1>>]

EntryAByteHarder == [EntryA EXCEPT !.proof_of_work = <<2, 2, 2, 3>>]

EntryLists == {<<EntryA, EntryB>>, <<EntryA, EntryIdx>>}

\* the lists of entries that blocks are built with or changed to
ChangedEntryLists ==
    EntryLists \cup {<<EntryAByte, EntryB>>, <<EntryAByteHarder, EntryB>>}

\* the public key of the signer of each entry
SignerKeys(entries) ==
    [i \in 1..Len(entries) |->
        IF entries[i].public_key # <<>> THEN entries[i].public_key[1]
        ELSE PublicKeyB]

EntryPool == {EntryA, EntryB, EntryIdx}

EntryBytesTable == [e \in EntryPool |-> Entry_to_bytes(e)]

to_bytes(e) ==
    IF e \in DOMAIN EntryBytesTable THEN EntryBytesTable[e] ELSE Entry_to_bytes(e)

EntryDifficultyTable == [e \in EntryPool |-> Entry_difficulty(e)]

difficulty(e) ==
    IF e \in DOMAIN EntryDifficultyTable THEN EntryDifficultyTable[e]
    ELSE Entry_difficulty(e)

(***************************************************************************)
(* Merkle tree (merkle_tree/src/lib.rs): the hashes of the layers.         *)
(***************************************************************************)
\* VarBlake2b with a 28-byte output in the source
merkle_hash(data) ==
    LET d == Digest16(data) IN <<(d \div 256) % 256, d % 256>>

Layer_from_leafs(leafs) == [i \in 1..Len(leafs) |-> merkle_hash(leafs[i])]

Layer_from_layer(layer) ==
    [j \in 1..((Len(layer) + 1) \div 2) |->
        IF 2 * j > Len(layer)
        THEN layer[2 * j - 1]
        ELSE merkle_hash(layer[2 * j - 1] \o layer[2 * j])]

RECURSIVE MerkleLayers(_)
MerkleLayers(layers) ==
    IF Len(layers[Len(layers)]) = 1 THEN layers
    ELSE MerkleLayers(Append(layers, Layer_from_layer(layers[Len(layers)])))

\* MerkleTree::new(..).root for a non-empty list of leaves
MerkleTree_root(leafs) ==
    LET layers == MerkleLayers(<<Layer_from_leafs(leafs)>>)
    IN  layers[Len(layers)][1]

(***************************************************************************)
(* The nodes of the Merkle tree (merkle_tree/src/lib.rs) and the proof     *)
(* built from them (merkle_tree/src/merkle_proof.rs).  The indices are the *)
(* source's, counted from 0; "None" is a returned None and "Panic" an      *)
(* abort.                                                                  *)
(***************************************************************************)
Node_from_node(node, index) ==
    [hash |-> node.hash, index |-> index, left_child_index |-> node.index,
     right_child_index |-> <<>>, parent_index |-> <<>>]

Node_from_hash(hash, hash_index) ==
    [hash |-> hash, index |-> hash_index, left_child_index |-> hash_index,
     right_child_index |-> <<>>, parent_index |-> <<>>]

Node_from_nodes(left_node, right_node, index) ==
    [hash |-> merkle_hash(left_node.hash \o right_node.hash), index |-> index,
     left_child_index |-> left_node.index,
     right_child_index |-> <<right_node.index>>, parent_index |-> <<>>]

\* Layer::from_leafs with the nodes
TreeLayer_from_leafs(leafs) ==
    [i \in 1..Len(leafs) |-> Node_from_hash(merkle_hash(leafs[i]), i - 1)]

\* Layer::from_layer that hashes a last node without a partner with itself
TreeLayer_from_layer_duplicating(layer) ==
    [j \in 1..((Len(layer) + 1) \div 2) |->
        IF 2 * j > Len(layer)
        THEN Node_from_nodes(layer[2 * j - 1], layer[2 * j - 1], j - 1)
        ELSE Node_from_nodes(layer[2 * j - 1], layer[2 * j], j - 1)]

\* Layer::from_layer: the nodes of the next layer
TreeLayer_from_layer(layer) ==
    [j \in 1..((Len(layer) + 1) \div 2) |->
        IF 2 * j > Len(layer)
        THEN Node_from_node(layer[2 * j - 1], j - 1)
        ELSE Node_from_nodes(layer[2 * j - 1], layer[2 * j], j - 1)]

\* Layer::from_layer: set_parent_index on the nodes that were paired; the
\* node that is carried over keeps parent_index None
TreeLayer_set_parents(layer) ==
    [i \in 1..Len(layer) |->
        IF i = Len(layer) /\ i % 2 = 1 THEN layer[i]
        ELSE [layer[i] EXCEPT !.parent_index = <<(i - 1) \div 2>>]]

\* the loop of MerkleTree::new, for a non-empty first layer
RECURSIVE MerkleTree_layers(_)
MerkleTree_layers(layers) ==
    IF Len(layers[Len(layers)]) = 1 THEN layers
    ELSE MerkleTree_layers(
             Append([layers EXCEPT ![Len(layers)] = TreeLayer_set_parents(@)],
                    TreeLayer_from_layer(layers[Len(layers)])))

\* MerkleTree { root: layers.last().unwrap().0[0].hash, layers }
MerkleTree_of(layers) ==
    [root |-> layers[Len(layers)][1].hash, layers |-> layers]

MerkleTree_new(leafs) ==
    MerkleTree_of(MerkleTree_layers(<<TreeLayer_from_leafs(leafs)>>))

\* Layer::hash of a proof layer
ProofLayer_hash(layer) ==
    IF layer.right_hash # <<>>
    THEN merkle_hash(layer.left_hash \o layer.right_hash[1])
    ELSE layer.left_hash

\* iter().find(|node| &node.hash == hash): the position of the first node
\* with the hash, 0 when there is none
RECURSIVE FindNode(_, _, _)
FindNode(nodes, hash, i) ==
    IF i > Len(nodes) THEN 0
    ELSE IF nodes[i].hash = hash THEN i
    ELSE FindNode(nodes, hash, i + 1)

\* Layer::from_hash once the node is found
ProofLayer_of_node(nodes, node, current_layer, tree) ==
    IF current_layer + 2 > Len(tree.layers) THEN Err("Panic")
    ELSE IF node.parent_index = <<>> THEN Err("None")
    ELSE IF node.parent_index[1] + 1 > Len(tree.layers[current_layer + 2])
    THEN Err("Panic")
    ELSE LET parent_node ==
                 tree.layers[current_layer + 2][node.parent_index[1] + 1]
         IN  Ok([left_hash |-> nodes[parent_node.left_child_index + 1].hash,
                 right_hash |->
                     IF parent_node.right_child_index # <<>>
                     THEN <<nodes[parent_node.right_child_index[1] + 1].hash>>
                     ELSE <<>>])

ProofLayer_from_hash(hash, current_layer, tree) ==
    LET nodes == tree.layers[current_layer + 1]
    IN  IF FindNode(nodes, hash, 1) = 0 THEN Err("None")
        ELSE ProofLayer_of_node(nodes, nodes[FindNode(nodes, hash, 1)],
                                current_layer, tree)

\* the loop of MerkleProof::new over layer_index in 1..layers.len() - 1
RECURSIVE MerkleProof_layers(_, _, _)
MerkleProof_layers(layers, layer_index, tree) ==
    IF layer_index >= Len(tree.layers) - 1 THEN Ok(layers)
    ELSE LET layer == ProofLayer_from_hash(ProofLayer_hash(layers[layer_index]),
                                           layer_index, tree)
         IN  IF layer.err # "Ok" THEN layer
             ELSE MerkleProof_layers(Append(layers, layer.val), layer_index + 1,
                                     tree)

MerkleProof_new(hash, tree) ==
    LET layer == ProofLayer_from_hash(hash, 0, tree)
    IN  IF layer.err # "Ok" THEN layer
        ELSE MerkleProof_layers(<<layer.val>>, 1, tree)

MerkleTree_get_proof(self, hash) == MerkleProof_new(hash, self)

\* the builds of the crate: with and without overflow checks
Builds == {"debug", "release"}

\* the loop of is_proof over the first n layers
RECURSIVE IsProofLinks(_, _, _)
IsProofLinks(layers, i, n) ==
    IF i >= n \/ i >= Len(layers) THEN Ok(TRUE)
    ELSE IF i + 2 > Len(layers) THEN Err("Panic")
    ELSE IF layers[i + 2].left_hash # ProofLayer_hash(layers[i + 1]) THEN Ok(FALSE)
    ELSE IsProofLinks(layers, i + 1, n)

\* the comparison with merkle_root that ends is_proof
is_proof_root(layers, merkle_root, links) ==
    IF links.err # "Ok" \/ ~links.val THEN links
    ELSE IF layers = <<>> THEN Err("Panic")
    ELSE Ok(ProofLayer_hash(layers[Len(layers)]) = merkle_root)

\* MerkleProof::is_proof.  layers.len() - 2 below zero aborts where overflow
\* is checked and wraps to a number above every length where it is not.
is_proof(layers, merkle_root, build) ==
    IF Len(layers) < 2 /\ build = "debug" THEN Err("Panic")
    ELSE is_proof_root(layers, merkle_root,
                       IsProofLinks(layers, 0,
                                    IF Len(layers) < 2 THEN Len(layers) + 1
                                    ELSE Len(layers) - 2))

(***************************************************************************)
(* Block and BlockHeader (block.rs).                                       *)
(***************************************************************************)
\* A RandomX input (Vec<u8>) is kept as its leading bytes and the number of
\* zero bytes that follow them, so that a long input stays a small value.
InputLen(input) == Len(input.bytes) + input.pad

\* RandomxCache::new(flags, key) then RandomxVm::hash(input): an even first
\* input byte stands for a nonce found by a miner (a hash with a zero first
\* byte), an odd one for an arbitrary nonce.
RandomxHash(key, input) ==
    LET d == Digest16(key \o input.bytes \o ToLeBytes(input.pad, 3))
    IN  IF input.bytes[1] % 2 = 0
        THEN <<0, (d \div 256) % 256, d % 256>>
        ELSE <<1 + (d % 255), (d \div 256) % 256, d % 256>>

\* bls_signatures::aggregate over the signatures of the entries, each made
\* with the private key of pks[i] over msgs[i]
AggregateSignature(pks, msgs) ==
    LET d == Digest16(ConcatAll([i \in 1..Len(pks) |-> pks[i] \o msgs[i]]))
    IN  <<83, (d \div 256) % 256, d % 256>>

\* bls_signatures::verify_messages
verify_messages(signature, msgs, pks) ==
    /\ Len(msgs) = Len(pks)
    /\ signature = AggregateSignature(pks, msgs)

BlockHeader_new(previous_hash, height, merkle_root, timestamp, difficulty_target, entry_difficulty, entry_difficulty_multiplier, max_allowed_entry_difficulty, miner_address, signature) ==
    [previous_hash |-> previous_hash, height |-> height,
     merkle_root |-> merkle_root, timestamp |-> timestamp,
     difficulty_target |-> difficulty_target,
     entry_difficulty |-> entry_difficulty,
     entry_difficulty_multiplier |-> entry_difficulty_multiplier,
     max_allowed_entry_difficulty |-> max_allowed_entry_difficulty,
     miner_address |-> miner_address, signature |-> signature]

BlockHeader_concat(h) ==
    h.previous_hash \o ToLeBytes8(h.height) \o h.merkle_root
        \o ToLeBytes8(h.timestamp) \o F32ToLeBytes(h.difficulty_target)
        \o h.miner_address \o h.signature

\* the first error of entry.to_bytes() over the entries, or "Ok"
RECURSIVE FirstEntryError(_, _)
FirstEntryError(entries, i) ==
    IF i > Len(entries) THEN "Ok"
    ELSE IF to_bytes(entries[i]).err # "Ok"
    THEN to_bytes(entries[i]).err
    ELSE FirstEntryError(entries, i + 1)

EntriesBytes(entries) ==
    [i \in 1..Len(entries) |-> to_bytes(entries[i]).val]

MerkleRootTable == [es \in EntryLists |-> MerkleTree_root(EntriesBytes(es))]

\* MerkleTree::new(&entries).root
merkle_root_of(entries) ==
    IF entries \in DOMAIN MerkleRootTable THEN MerkleRootTable[entries]
    ELSE MerkleTree_root(EntriesBytes(entries))

SignatureTable ==
    [es \in EntryLists |-> AggregateSignature(SignerKeys(es), EntriesBytes(es))]

\* the aggregate signature the signers of the entries produce
sign_entries(entries) ==
    IF entries \in DOMAIN SignatureTable THEN SignatureTable[entries]
    ELSE AggregateSignature(SignerKeys(entries), EntriesBytes(entries))

\* verify_messages over the entries of a block whose keys are pks
verify_entries(signature, entries, pks) ==
    IF pks = SignerKeys(entries)
    THEN Len(entries) = Len(pks) /\ signature = sign_entries(entries)
    ELSE verify_messages(signature, EntriesBytes(entries), pks)

\* the loop of Block::miner_difficulty: the first byte that is not zero
\* ends the scan after its leading zeros are counted
RECURSIVE MinerLeadingZeros(_, _)
MinerLeadingZeros(hash, i) ==
    IF i > Len(hash) THEN 0
    ELSE IF LeadingZeros8(hash[i]) < 8 THEN LeadingZeros8(hash[i])
    ELSE 8 + MinerLeadingZeros(hash, i + 1)

Block_miner_difficulty(b) == Pow2(MinerLeadingZeros(b.hash, 1))

RECURSIVE SumEntryDifficulty(_, _)
SumEntryDifficulty(entries, i) ==
    IF i > Len(entries) THEN FromInt(0)
    ELSE FAdd(SumEntryDifficulty(entries, i + 1),
              FromInt(difficulty(entries[i]).val))

Block_entry_difficulty(b) ==
    IF FirstEntryError(b.entries, 1) # "Ok"
    THEN Err(FirstEntryError(b.entries, 1))
    ELSE LET total == SumEntryDifficulty(b.entries, 1)
         IN  IF FLt(b.header.max_allowed_entry_difficulty, total)
             THEN Ok(b.header.max_allowed_entry_difficulty)
             ELSE Ok(total)

\* miner_difficulty as f32 + entry_difficulty()? * multiplier
Block_difficulty_of(b, ed) ==
    IF ed.err # "Ok" THEN ed
    ELSE Ok(FAdd(FromInt(Block_miner_difficulty(b)),
                 FMul(ed.val, b.header.entry_difficulty_multiplier)))

Block_difficulty(b) == Block_difficulty_of(b, Block_entry_difficulty(b))

\* Block::calc_hash: the cache is keyed by the header concatenation and the
\* RandomX input is hashed against it
Block_calc_hash(b) == Ok(RandomxHash(BlockHeader_concat(b.header), b.randomx_input))

Block_is_merkle_root_valid(b) ==
    merkle_root_of(b.entries) = b.header.merkle_root

Block_new_with_signature(previous_hash, height, entries, randomx_input, timestamp, difficulty_target, entry_difficulty_multiplier, max_allowed_entry_difficulty, miner_address, signature) ==
    LET header == BlockHeader_new(previous_hash, height,
                      merkle_root_of(entries), timestamp,
                      difficulty_target, FromInt(0),
                      entry_difficulty_multiplier,
                      max_allowed_entry_difficulty, miner_address, signature)
        block == [entries |-> entries, header |-> header,
                  randomx_input |-> randomx_input,
                  hash |-> RandomxHash(BlockHeader_concat(header), randomx_input)]
        ed == Block_entry_difficulty(block)
    IN  IF ed.err # "Ok" THEN ed
        ELSE Ok([block EXCEPT !.header.entry_difficulty = ed.val])

\* Block::to_bytes: the envelope BlockWithSerializedEntries
Block_to_bytes(b) ==
    IF FirstEntryError(b.entries, 1) # "Ok"
    THEN Err(FirstEntryError(b.entries, 1))
    ELSE Ok([entries_bytes |-> EntriesBytes(b.entries), header |-> b.header,
             randomx_input |-> b.randomx_input, hash |-> b.hash])

RECURSIVE SumLen(_, _)
SumLen(seqs, i) ==
    IF i > Len(seqs) THEN 0 ELSE Len(seqs[i]) + SumLen(seqs, i + 1)

\* block_bytes.len(): the payload bytes of the envelope, 12 of them for the
\* three f32 fields outside the header concatenation (the framing bytes of
\* the MessagePack codec are not counted)
EnvelopeLen(env) ==
    SumLen(env.entries_bytes, 1) + Len(BlockHeader_concat(env.header))
        + 12 + InputLen(env.randomx_input) + Len(env.hash)

Min(a, b) == IF a < b THEN a ELSE b

\* Entry::from_bytes; "Panic" is an abort of an unwrap()
Entry_from_bytes(bytes) ==
    IF Len(bytes) < 1 THEN Err("Panic")
    ELSE LET n == bytes[1]
             p1 == 2 + COINFILE_HASH_LEN * n
             p2 == p1 + OUTPUT_HASH_LEN
         IN  IF Len(bytes) < p1 - 1 THEN Err("Panic")
             ELSE IF Len(bytes) < p2 - 1 THEN Err("Panic")
             ELSE IF Len(bytes) < p2 THEN Err("Panic")
             ELSE LET disc == bytes[p2]
                      p3 == p2 + 1
                      keylen == IF disc = 0
                                THEN Min(PUBLIC_KEY_LEN, Len(bytes) - p3 + 1)
                                ELSE IF disc = 1 THEN 8 ELSE 0
                      p4 == p3 + keylen
                  IN  IF disc = 1 /\ Len(bytes) < p3 + 7 THEN Err("Panic")
                      ELSE IF Len(bytes) < p4 THEN Err("Panic")
                      ELSE Ok(Entry_new(
                          [i \in 1..n |-> SubSeq(bytes, 2 + COINFILE_HASH_LEN * (i - 1),
                                                 1 + COINFILE_HASH_LEN * i)],
                          SubSeq(bytes, p1, p2 - 1),
                          IF disc = 0 THEN <<SubSeq(bytes, p3, p4 - 1)>> ELSE <<>>,
                          IF disc = 1 THEN <<FromLeBytes(SubSeq(bytes, p3, p4 - 1))>>
                          ELSE <<>>,
                          SubSeq(bytes, p4 + 1, Min(p4 + bytes[p4], Len(bytes)))))

RECURSIVE FirstDecodeError(_, _)
FirstDecodeError(entries_bytes, i) ==
    IF i > Len(entries_bytes) THEN "Ok"
    ELSE IF Entry_from_bytes(entries_bytes[i]).err # "Ok"
    THEN Entry_from_bytes(entries_bytes[i]).err
    ELSE FirstDecodeError(entries_bytes, i + 1)

\* Block::from_bytes: the block is rebuilt by Block::new_with_signature
Block_from_bytes(env) ==
    IF FirstDecodeError(env.entries_bytes, 1) # "Ok"
    THEN Err(FirstDecodeError(env.entries_bytes, 1))
    ELSE Block_new_with_signature(
             env.header.previous_hash, env.header.height,
             [i \in 1..Len(env.entries_bytes) |->
                 Entry_from_bytes(env.entries_bytes[i]).val],
             env.randomx_input, env.header.timestamp,
             env.header.difficulty_target,
             env.header.entry_difficulty_multiplier,
             env.header.max_allowed_entry_difficulty,
             env.header.miner_address, env.header.signature)

(***************************************************************************)
(* The key-value store and its typed keys (lib.rs).                        *)
(***************************************************************************)
KeyType_Block == 1
KeyType_BlockHeader == 2
KeyType_BlockHeight == 3
KeyType_PublicKey == 4

\* key.push(tag); key.rotate_right(1): the tag comes first
KeyType_make_key(key_type, key) == <<key_type>> \o key

\* b"blockchain_info"
BlockchainInfoKey ==
    <<98, 108, 111, 99, 107, 99, 104, 97, 105, 110, 95, 105, 110, 102, 111>>

DbGet(d, key) == IF key \in DOMAIN d THEN <<d[key]>> ELSE <<>>

DbPut(d, key, value) ==
    [k \in DOMAIN d \cup {key} |-> IF k = key THEN value ELSE d[k]]

DbDelete(d, key) == [k \in DOMAIN d \ {key} |-> d[k]]

\* Block::check_signature
RECURSIVE ResolvePublicKeys(_, _, _)
ResolvePublicKeys(d, entries, i) ==
    IF i > Len(entries) THEN Ok(<<>>)
    ELSE LET e == entries[i]
             found ==
                 IF e.public_key # <<>> THEN Ok(e.public_key[1])
                 ELSE IF e.public_key_index # <<>>
                 THEN LET key == KeyType_make_key(KeyType_PublicKey,
                                     ToLeBytes8(e.public_key_index[1]))
                      IN  IF DbGet(d, key) # <<>> THEN Ok(DbGet(d, key)[1])
                          ELSE Err("NoPublicKeyFound")
                 ELSE Err("NoPublicKeyFound")
         IN  IF found.err # "Ok" THEN found
             ELSE IF to_bytes(e).err # "Ok" THEN to_bytes(e)
             ELSE LET rest == ResolvePublicKeys(d, entries, i + 1)
                  IN  IF rest.err # "Ok" THEN rest
                      ELSE Ok(<<found.val>> \o rest.val)

Block_check_signature(b, d) ==
    LET pks == ResolvePublicKeys(d, b.entries, 1)
    IN  IF pks.err # "Ok" THEN pks
        ELSE IF ~verify_entries(b.header.signature, b.entries, pks.val)
        THEN Err("InvalidSignature")
        ELSE Ok(<<>>)

(***************************************************************************)
(* Blockchain (lib.rs).  An engine value is [info, db, randomx_cache]; the *)
(* cache is identified with the key it was constructed from.  A step of an *)
(* operation maps [info, db, randomx_cache, err] to the same, and does     *)
(* nothing once err is set (the ? operator).                               *)
(***************************************************************************)
\* From<BlockError> for BlockchainError: kind Other with the cause as source
WrapBlockError(kind) ==
    CASE kind = "NoPublicKeyFound" -> "Other(NoPublicKeyFound)"
      [] kind = "InvalidSignature" -> "Other(InvalidSignature)"
      [] kind = "TooManyCoinfileHashes" -> "Other(TooManyCoinfileHashes)"
      [] kind = "PoWTooLong" -> "Other(PoWTooLong)"
      [] OTHER -> "Other"

\* SystemTime::now() at the first open of the store, in seconds
Now == 240

BlockchainInfo_default ==
    [is_empty |-> TRUE,
     top_block_hash |-> ZeroHash,
     past_median_timestamp |-> 0,
     network_adjusted_time |-> Now,
     difficulty |-> FromInt(256),
     randomx_vm_key |-> ZeroHash,
     entry_difficulty_multiplier |-> Ratio(5, 1000),
     max_allowed_entry_difficulty |-> FromInt(4096),
     block_size_cap |-> DEFAULT_BLOCK_SIZE_CAP,
     height |-> 0]

\* Blockchain::new on the store d
Blockchain_new(d) ==
    LET saved == DbGet(d, BlockchainInfoKey)
    IN  [info |-> IF saved # <<>> THEN saved[1] ELSE BlockchainInfo_default,
         db |-> IF saved # <<>> THEN d
                ELSE DbPut(d, BlockchainInfoKey, BlockchainInfo_default),
         randomx_cache |-> ZeroHash]

\* the `?` on Block::from_bytes in get_block
get_block_decoded(block) ==
    IF block.err # "Ok" THEN Err(WrapBlockError(block.err)) ELSE block

get_block(self, hash) ==
    LET block_bytes == DbGet(self.db, hash)
    IN  IF block_bytes = <<>> THEN Err("BlockDoesntExist")
        ELSE get_block_decoded(Block_from_bytes(block_bytes[1]))

\* get_block_hash that reports a missing height as a missing block
get_block_hash_other_kind(d, height) ==
    LET key == KeyType_make_key(KeyType_BlockHeight, ToLeBytes8(height))
    IN  IF DbGet(d, key) = <<>> THEN Err("BlockDoesntExist")
        ELSE Ok(DbGet(d, key)[1])

get_block_hash(d, height) ==
    LET key == KeyType_make_key(KeyType_BlockHeight, ToLeBytes8(height))
    IN  IF DbGet(d, key) = <<>> THEN Err("CantFindHashFromHeight")
        ELSE Ok(DbGet(d, key)[1])

add_block_hash(d, block) ==
    DbPut(d, KeyType_make_key(KeyType_BlockHeight, ToLeBytes8(block.header.height)),
          block.hash)

\* del_block_hash that deletes nothing
del_block_hash_kept(d, height) == d

del_block_hash(d, height) ==
    DbDelete(d, KeyType_make_key(KeyType_BlockHeight, ToLeBytes8(height)))

get_block_header(d, hash) ==
    LET key == KeyType_make_key(KeyType_BlockHeader, hash)
    IN  IF DbGet(d, key) = <<>> THEN Err("BlockHeaderDoesntExist")
        ELSE Ok(DbGet(d, key)[1])

add_block_header(d, block) ==
    DbPut(d, KeyType_make_key(KeyType_BlockHeader, block.hash), block.header)

\* del_block_header that deletes nothing
del_block_header_kept(d, hash) == d

del_block_header(d, hash) ==
    DbDelete(d, KeyType_make_key(KeyType_BlockHeader, hash))

\* the headers at heights info.height, info.height - 1, ..., newest first
RECURSIVE PreviousHeadersFrom(_, _, _)
PreviousHeadersFrom(st, i, amount) ==
    IF i >= amount \/ st.info.height - i < 1 THEN Ok(<<>>)
    ELSE LET block_hash == get_block_hash(st.db, st.info.height - i)
         IN  IF block_hash.err # "Ok" THEN block_hash
             ELSE LET block_header == get_block_header(st.db, block_hash.val)
                  IN  IF block_header.err # "Ok" THEN block_header
                      ELSE LET rest == PreviousHeadersFrom(st, i + 1, amount)
                           IN  IF rest.err # "Ok" THEN rest
                               ELSE Ok(<<block_header.val>> \o rest.val)

get_previous_n_block_headers(st, amount) == PreviousHeadersFrom(st, 0, amount)

\* update_median_timestamp that always reads the first block
update_median_timestamp_first_block(st) ==
    IF st.err # "Ok" \/ st.info.height < 1 THEN st
    ELSE LET block_index == 1
             block_hash == get_block_hash(st.db, block_index)
         IN  IF block_hash.err # "Ok" THEN [st EXCEPT !.err = block_hash.err]
             ELSE LET block_header == get_block_header(st.db, block_hash.val)
                  IN  IF block_header.err # "Ok"
                      THEN [st EXCEPT !.err = block_header.err]
                      ELSE [st EXCEPT !.info.past_median_timestamp =
                                          block_header.val.timestamp]

update_median_timestamp(st) ==
    IF st.err # "Ok" \/ st.info.height < 1 THEN st
    ELSE LET block_index == IF st.info.height - MEDIAN_OFFSET < 1 THEN 1
                            ELSE st.info.height - MEDIAN_OFFSET
             block_hash == get_block_hash(st.db, block_index)
         IN  IF block_hash.err # "Ok" THEN [st EXCEPT !.err = block_hash.err]
             ELSE LET block_header == get_block_header(st.db, block_hash.val)
                  IN  IF block_header.err # "Ok"
                      THEN [st EXCEPT !.err = block_header.err]
                      ELSE [st EXCEPT !.info.past_median_timestamp =
                                          block_header.val.timestamp]

RECURSIVE SumTargets(_, _)
SumTargets(headers, i) ==
    IF i > Len(headers) THEN 0
    ELSE AsU128(headers[i].difficulty_target) + SumTargets(headers, i + 1)

RECURSIVE SumEntryTargets(_, _)
SumEntryTargets(headers, i) ==
    IF i > Len(headers) THEN 0
    ELSE AsU128(headers[i].entry_difficulty) + SumEntryTargets(headers, i + 1)

\* the sum over i >= 2 of headers[i - 1].timestamp - headers[i].timestamp
RECURSIVE SumBlockTimes(_, _)
SumBlockTimes(headers, i) ==
    IF i > Len(headers) THEN 0
    ELSE (headers[i - 1].timestamp - headers[i].timestamp)
             + SumBlockTimes(headers, i + 1)

\* update_difficulty that runs from the first block on
update_difficulty_from_first_block(st) ==
    IF st.err # "Ok" \/ st.info.height < 1 THEN st
    ELSE LET block_headers ==
                 get_previous_n_block_headers(st, PREVIOUS_BLOCKS_TO_CONSIDER)
         IN  IF block_headers.err # "Ok" THEN [st EXCEPT !.err = block_headers.err]
             ELSE LET hs == block_headers.val
                      average_difficulty ==
                          FDiv(FromInt(SumTargets(hs, 1)), FromInt(Len(hs)))
                      average_block_time ==
                          FDiv(FromInt(SumBlockTimes(hs, 2)), FromInt(Len(hs)))
                      network_hash_rate ==
                          FDiv(average_difficulty, average_block_time)
                  IN  [st EXCEPT !.info.difficulty =
                                     FMul(network_hash_rate, FromInt(BLOCK_TIME))]

update_difficulty(st) ==
    IF st.err # "Ok" \/ st.info.height < 2 THEN st
    ELSE LET block_headers ==
                 get_previous_n_block_headers(st, PREVIOUS_BLOCKS_TO_CONSIDER)
         IN  IF block_headers.err # "Ok" THEN [st EXCEPT !.err = block_headers.err]
             ELSE LET hs == block_headers.val
                      average_difficulty ==
                          FDiv(FromInt(SumTargets(hs, 1)), FromInt(Len(hs)))
                      average_block_time ==
                          FDiv(FromInt(SumBlockTimes(hs, 2)), FromInt(Len(hs)))
                      network_hash_rate ==
                          FDiv(average_difficulty, average_block_time)
                  IN  [st EXCEPT !.info.difficulty =
                                     FMul(network_hash_rate, FromInt(BLOCK_TIME))]

update_entry_difficulty_limits(st) ==
    IF st.err # "Ok" \/ st.info.height < 2 THEN st
    ELSE LET block_headers ==
                 get_previous_n_block_headers(st, PREVIOUS_BLOCKS_TO_CONSIDER)
         IN  IF block_headers.err # "Ok" THEN [st EXCEPT !.err = block_headers.err]
             ELSE LET hs == block_headers.val
                      average_difficulty ==
                          FDiv(FromInt(SumTargets(hs, 1)), FromInt(Len(hs)))
                      average_entry_difficulty ==
                          FDiv(FromInt(SumEntryTargets(hs, 1)), FromInt(Len(hs)))
                  IN  [st EXCEPT
                          !.info.entry_difficulty_multiplier =
                              FDiv(FMul(average_difficulty, Ratio(5, 100)),
                                   average_entry_difficulty),
                          !.info.max_allowed_entry_difficulty =
                              FMul(average_entry_difficulty, Ratio(15, 10))]

Self == [info |-> info, db |-> db, randomx_cache |-> randomx_cache]

WithErr(self, e) ==
    [info |-> self.info, db |-> self.db, randomx_cache |-> self.randomx_cache,
     err |-> e]

\* The early returns of add_block, one operator each: the error returned,
\* or "Ok" when add_block goes on to the next one.
check_duplicate(self, block) ==
    IF get_block(self, block.hash).err = "Ok" THEN "BlockAlreadyExists" ELSE "Ok"

\* the height check with the gap of one block let through
check_height_gap(self, block) ==
    IF block.header.height > self.info.height + 2 THEN "SkippedBlock"
    ELSE IF block.header.height < self.info.height + 1 THEN "BlockNotAtTop"
    ELSE "Ok"

check_height(self, block) ==
    IF block.header.height > self.info.height + 1 THEN "SkippedBlock"
    ELSE IF block.header.height < self.info.height + 1 THEN "BlockNotAtTop"
    ELSE "Ok"

\* add_block without the parent link check
check_previous_hash_skipped(self, block) == "Ok"

check_previous_hash(self, block) ==
    IF block.header.previous_hash # self.info.top_block_hash
    THEN "BlockPreviousHashWrong" ELSE "Ok"

check_difficulty_target(self, block) ==
    IF ~FEq(block.header.difficulty_target, self.info.difficulty)
    THEN "BlockTargetDifficultyWrong" ELSE "Ok"

check_timestamp_floor(self, block) ==
    IF block.header.timestamp < self.info.past_median_timestamp
    THEN "BlockTimestampTooEarly" ELSE "Ok"

\* the ceiling check with the latest time itself turned down
check_timestamp_ceiling_exclusive(self, block) ==
    IF block.header.timestamp >= self.info.network_adjusted_time + FUTURE_TOLERANCE
    THEN "BlockInFuture" ELSE "Ok"

check_timestamp_ceiling(self, block) ==
    IF block.header.timestamp > self.info.network_adjusted_time + FUTURE_TOLERANCE
    THEN "BlockInFuture" ELSE "Ok"

\* block.difficulty()? < self.info.difficulty
check_work_of(self, block_difficulty) ==
    IF block_difficulty.err # "Ok" THEN WrapBlockError(block_difficulty.err)
    ELSE IF FLt(block_difficulty.val, self.info.difficulty)
    THEN "BlockNotEnoughWork" ELSE "Ok"

check_work(self, block) == check_work_of(self, Block_difficulty(block))

\* block.header.entry_difficulty != block.entry_difficulty()?
check_entry_difficulty_of(block, entry_difficulty) ==
    IF entry_difficulty.err # "Ok" THEN WrapBlockError(entry_difficulty.err)
    ELSE IF ~FEq(block.header.entry_difficulty, entry_difficulty.val)
    THEN "BlockEntryDifficultyWrong" ELSE "Ok"

check_entry_difficulty(self, block) ==
    check_entry_difficulty_of(block, Block_entry_difficulty(block))

\* the comparison of the announced cap as a lower bound only
check_max_allowed_entry_difficulty_floor(self, block) ==
    IF FLt(block.header.max_allowed_entry_difficulty,
           self.info.max_allowed_entry_difficulty)
    THEN "BlockMaxAllowedEntryDifficultyWrong" ELSE "Ok"

check_max_allowed_entry_difficulty(self, block) ==
    IF ~FEq(block.header.max_allowed_entry_difficulty,
            self.info.max_allowed_entry_difficulty)
    THEN "BlockMaxAllowedEntryDifficultyWrong" ELSE "Ok"

\* add_block without the comparison of the Merkle root
check_merkle_root_skipped(self, block) == "Ok"

check_merkle_root(self, block) ==
    IF ~Block_is_merkle_root_valid(block) THEN "InvalidMerkleRoot" ELSE "Ok"

check_size(self, block) ==
    LET block_bytes == Block_to_bytes(block)
    IN  IF block_bytes.err # "Ok" THEN WrapBlockError(block_bytes.err)
        ELSE IF EnvelopeLen(block_bytes.val) > self.info.block_size_cap
        THEN "BlockTooBig" ELSE "Ok"

\* the signature check that only resolves the public keys
check_signature_unverified(self, block) ==
    LET pks == ResolvePublicKeys(self.db, block.entries, 1)
    IN  IF pks.err # "Ok" THEN WrapBlockError(pks.err) ELSE "Ok"

check_signature(self, block) ==
    LET checked == Block_check_signature(block, self.db)
    IN  IF checked.err # "Ok" THEN WrapBlockError(checked.err) ELSE "Ok"

check_hash(self, block) ==
    IF Block_calc_hash(block).val # block.hash THEN "InvalidHash" ELSE "Ok"

\* the ? of an early return: the error e, or the rest of the function
OrElse(e, rest) == IF e # "Ok" THEN e ELSE rest

\* add_block up to its last early return (lib.rs lines 81-160): the error
\* of the first check that fails, or "Ok"
add_block_validate(self, block) ==
    OrElse(check_duplicate(self, block),
    OrElse(check_height(self, block),
    OrElse(check_previous_hash(self, block),
    OrElse(check_difficulty_target(self, block),
    OrElse(check_timestamp_floor(self, block),
    OrElse(check_timestamp_ceiling(self, block),
    OrElse(check_work(self, block),
    OrElse(check_entry_difficulty(self, block),
    OrElse(check_max_allowed_entry_difficulty(self, block),
    OrElse(check_merkle_root(self, block),
    OrElse(check_size(self, block),
    OrElse(check_signature(self, block),
           check_hash(self, block)))))))))))))

\* add_block after the checks: lib.rs lines 162-182
add_block_commit(self, block) ==
    LET s1 == [info |-> [self.info EXCEPT !.height = @ + 1,
                                          !.top_block_hash = block.hash,
                                          !.is_empty = FALSE],
               db |-> add_block_header(
                          add_block_hash(
                              DbPut(self.db,
                                    KeyType_make_key(KeyType_Block, block.hash),
                                    Block_to_bytes(block).val),
                              block),
                          block),
               randomx_cache |-> self.randomx_cache,
               err |-> "Ok"]
        s2 == update_entry_difficulty_limits(
                  update_difficulty(update_median_timestamp(s1)))
    IN  IF s2.err = "Ok" /\ s2.info.height % RANDOMX_VM_KEY_LIFETIME = 0
        THEN [s2 EXCEPT !.info.randomx_vm_key = s2.info.top_block_hash,
                        !.randomx_cache = s2.info.top_block_hash]
        ELSE s2

\* add_block with `self.info.height += 1` moved before the checks
add_block_outcome_counted_early(self, block, checked) ==
    IF checked # "Ok" THEN WithErr([self EXCEPT !.info.height = @ + 1], checked)
    ELSE add_block_commit(self, block)

\* add_block once the outcome of its checks is known
add_block_outcome(self, block, checked) ==
    IF checked # "Ok" THEN WithErr(self, checked)
    ELSE add_block_commit(self, block)

add_block(self, block) ==
    add_block_outcome(self, block, add_block_validate(self, block))

\* del_top_block that leaves the key of the removed block's epoch in place
restore_randomx_vm_key_kept(st, block_header) == st

\* del_top_block, lib.rs lines 199-208: the engine after the key of the
\* removed block's epoch is given up
restore_randomx_vm_key(st, block_header) ==
    IF block_header.height % RANDOMX_VM_KEY_LIFETIME # 0 THEN st
    ELSE IF block_header.height - RANDOMX_VM_KEY_LIFETIME > 0
    THEN LET old_block_hash ==
                 get_block_hash(st.db, block_header.height - RANDOMX_VM_KEY_LIFETIME)
         IN  IF old_block_hash.err # "Ok" THEN [st EXCEPT !.err = old_block_hash.err]
             ELSE [st EXCEPT !.info.randomx_vm_key = old_block_hash.val]
    ELSE [st EXCEPT !.info.randomx_vm_key = ZeroHash]

(***************************************************************************)
(* add_block and del_top_block write by write.  pending holds the store    *)
(* operations the call in progress has yet to issue, in the order of the   *)
(* source; a process that stops between two of them leaves the store as    *)
(* the operations issued so far have made it.                              *)
(***************************************************************************)
\* lib.rs lines 166-170 with the write of the height index moved first
add_block_writes_index_first(block) ==
    <<[kind |-> "put",
       key |-> KeyType_make_key(KeyType_BlockHeight, ToLeBytes8(block.header.height)),
       value |-> block.hash],
      [kind |-> "put", key |-> KeyType_make_key(KeyType_Block, block.hash),
       value |-> Block_to_bytes(block).val],
      [kind |-> "put", key |-> KeyType_make_key(KeyType_BlockHeader, block.hash),
       value |-> block.header]>>

\* lib.rs lines 166-170: db.put of the envelope, add_block_hash,
\* add_block_header
add_block_writes(block) ==
    <<[kind |-> "put", key |-> KeyType_make_key(KeyType_Block, block.hash),
       value |-> Block_to_bytes(block).val],
      [kind |-> "put",
       key |-> KeyType_make_key(KeyType_BlockHeight, ToLeBytes8(block.header.height)),
       value |-> block.hash],
      [kind |-> "put", key |-> KeyType_make_key(KeyType_BlockHeader, block.hash),
       value |-> block.header]>>

\* lib.rs lines 190-197: del_block_hash, del_block_header, db.delete of the
\* envelope
del_top_block_writes(block_hash, block_header) ==
    <<[kind |-> "delete",
       key |-> KeyType_make_key(KeyType_BlockHeight, ToLeBytes8(block_header.height)),
       value |-> <<>>],
      [kind |-> "delete", key |-> KeyType_make_key(KeyType_BlockHeader, block_hash),
       value |-> <<>>],
      [kind |-> "delete", key |-> KeyType_make_key(KeyType_Block, block_hash),
       value |-> <<>>]>>

DbApply(d, w) ==
    IF w.kind = "put" THEN DbPut(d, w.key, w.value) ELSE DbDelete(d, w.key)

\* add_block after its writes: lib.rs lines 172-182
add_block_finish(st) ==
    LET s2 == update_entry_difficulty_limits(
                  update_difficulty(update_median_timestamp(st)))
    IN  IF s2.err = "Ok" /\ s2.info.height % RANDOMX_VM_KEY_LIFETIME = 0
        THEN [s2 EXCEPT !.info.randomx_vm_key = s2.info.top_block_hash,
                        !.randomx_cache = s2.info.top_block_hash]
        ELSE s2

\* del_top_block after its deletes: lib.rs lines 199-214
del_top_block_finish(st, block_header) ==
    update_entry_difficulty_limits(
        update_difficulty(
            update_median_timestamp(restore_randomx_vm_key(st, block_header))))

\* del_top_block once the hash and the header of the top block are read:
\* lib.rs lines 190-214
del_top_block_commit(self, block_hash, block_header) ==
    LET s1 == [info |-> [self.info EXCEPT
                            !.top_block_hash = block_header.previous_hash,
                            !.height = @ - 1],
               db |-> DbDelete(
                          del_block_header(
                              del_block_hash(self.db, block_header.height),
                              block_hash),
                          KeyType_make_key(KeyType_Block, block_hash)),
               randomx_cache |-> self.randomx_cache,
               err |-> "Ok"]
    IN  update_entry_difficulty_limits(
            update_difficulty(
                update_median_timestamp(restore_randomx_vm_key(s1, block_header))))

del_top_block(self) ==
    LET block_hash == get_block_hash(self.db, self.info.height)
    IN  IF block_hash.err # "Ok" THEN WithErr(self, block_hash.err)
        ELSE LET block_header == get_block_header(self.db, block_hash.val)
             IN  IF block_header.err # "Ok" THEN WithErr(self, block_header.err)
                 ELSE del_top_block_commit(self, block_hash.val, block_header.val)

(***************************************************************************)
(* The callers: blocks handed to add_block (tests/test.rs mine_block and   *)
(* make_entry), block by block a well-formed block for the current chain   *)
(* in which at most one field is replaced by a wrong value.                *)
(***************************************************************************)
\* the block times of the callers: one in the past, the latest one allowed
\* and the first one in the future
TimeStamps == {BLOCK_TIME, Now + FUTURE_TOLERANCE, Now + FUTURE_TOLERANCE + 1}

\* a nonce found by the miner, an arbitrary nonce, and an oversized input
MinedInput == [bytes |-> <<0>>, pad |-> 0]

ArbitraryInput == [bytes |-> <<1>>, pad |-> 0]

OversizedInput == [bytes |-> <<0>>, pad |-> DEFAULT_BLOCK_SIZE_CAP]

WrongHash == <<255, 255, 255>>

MinerAddress == ZeroHash

Faults ==
    {"height_low", "height_high", "previous_hash", "difficulty_target",
     "entry_difficulty", "entry_difficulty_multiplier",
     "max_allowed_entry_difficulty_low", "max_allowed_entry_difficulty_high",
     "merkle_root", "signature", "hash", "hash_of_top", "arbitrary_nonce",
     "oversized_input", "public_key_index", "hash_under_cache",
     "only_difficulty_target", "only_max_allowed_entry_difficulty_low",
     "only_entry_byte", "only_entry_byte_harder"}

FaultSets == {{}} \cup {{f} : f \in Faults}

\* finite f32 values only
CandidateFloats(x, wrong) == IF wrong THEN FAdd(x, FromInt(1)) ELSE x

\* tests/test.rs find_nonce: the header concatenation with the nonce is
\* hashed against the cache of the engine
find_nonce(block, cache) ==
    RandomxHash(cache, [bytes |-> BlockHeader_concat(block.header)
                                      \o block.randomx_input.bytes,
                        pad |-> block.randomx_input.pad])

\* block.hash = block.calc_hash() of mine_block, or a wrong hash
with_hash(self, F, block) ==
    [block EXCEPT !.hash =
        IF "hash" \in F THEN WrongHash
        ELSE IF "hash_of_top" \in F THEN self.info.top_block_hash
        ELSE IF "hash_under_cache" \in F
        THEN find_nonce(block, self.randomx_cache)
        ELSE Block_calc_hash(block).val]

mine_block(self, timestamp, F) ==
    LET entries == IF "public_key_index" \in F THEN <<EntryA, EntryIdx>>
                   ELSE <<EntryA, EntryB>>
        randomx_input == IF "oversized_input" \in F THEN OversizedInput
                         ELSE IF "arbitrary_nonce" \in F THEN ArbitraryInput
                         ELSE MinedInput
        built == Block_new_with_signature(
            IF "previous_hash" \in F THEN WrongHash ELSE self.info.top_block_hash,
            IF "height_low" \in F THEN self.info.height
            ELSE IF "height_high" \in F THEN self.info.height + 2
            ELSE self.info.height + 1,
            entries, randomx_input, timestamp,
            CandidateFloats(self.info.difficulty, "difficulty_target" \in F),
            CandidateFloats(self.info.entry_difficulty_multiplier,
                            "entry_difficulty_multiplier" \in F),
            IF "max_allowed_entry_difficulty_low" \in F
            THEN FMul(self.info.max_allowed_entry_difficulty, Ratio(1, 64))
            ELSE IF "max_allowed_entry_difficulty_high" \in F
            THEN FMul(self.info.max_allowed_entry_difficulty, FromInt(2))
            ELSE self.info.max_allowed_entry_difficulty,
            MinerAddress,
            IF "signature" \in F THEN WrongHash
            ELSE sign_entries(entries)).val
        b1 == [built EXCEPT
                  !.header.merkle_root =
                      IF "merkle_root" \in F THEN <<255, 255>> ELSE @,
                  !.header.entry_difficulty =
                      CandidateFloats(@, "entry_difficulty" \in F)]
    IN  [with_hash(self, F, b1) EXCEPT
            !.header.difficulty_target =
                CandidateFloats(@, "only_difficulty_target" \in F),
            !.header.max_allowed_entry_difficulty =
                IF "only_max_allowed_entry_difficulty_low" \in F
                THEN FMul(@, Ratio(1, 64)) ELSE @,
            !.entries =
                IF "only_entry_byte" \in F THEN <<EntryAByte, EntryB>>
                ELSE IF "only_entry_byte_harder" \in F
                THEN <<EntryAByteHarder, EntryB>>
                ELSE @]

\* the blocks of the chain, as read back from their envelopes
StoredBlocks(self) ==
    {Block_from_bytes(
         self.db[KeyType_make_key(KeyType_Block, get_block_hash(self.db, h).val)]).val :
        h \in {x \in 1..self.info.height :
                 /\ get_block_hash(self.db, x).err = "Ok"
                 /\ KeyType_make_key(KeyType_Block, get_block_hash(self.db, x).val)
                        \in DOMAIN self.db}}

(***************************************************************************)
(* The network node (padlock-networking lib.rs): the state all connection  *)
(* tasks share through an AtomicCell, and one handle task per connection   *)
(* with its own copy current_state of that state.                          *)
(***************************************************************************)
MaxConnections == 3

Connections == 1..MaxConnections

\* the configuration of tests/test.rs create_custom_node, with the wallet
\* cap scaled from 100 to 2 so that MaxConnections connections reach it
CustomConfiguration ==
    [port |-> 5555, node_timeout |-> 10000, wallet_timeout |-> 10000,
     max_node_size |-> 50, max_wallet_size |-> 500,
     max_node_connections |-> 1, max_wallet_connections |-> 2]

Node_create(configuration) ==
    [configuration |-> configuration, active |-> FALSE,
     node_connections |-> 0, wallet_connections |-> 0]

\* Node::listen up to its loop: the node is active and host accepts sockets
Node_listen(s) == [s EXCEPT !.active = TRUE]

\* the configuration of tests/test.rs create_default_node_and_swap: the
\* default one on port 5555
SwappedConfiguration ==
    [port |-> 5555, node_timeout |-> 300000, wallet_timeout |-> 300000,
     max_node_size |-> 15000, max_wallet_size |-> 1000,
     max_node_connections |-> 50, max_wallet_connections |-> 5000]

\* a task host has spawned for an accepted socket, before its handshake
Spawned == [pc |-> "handshake", current_state |-> <<>>, client |-> "None"]

(***************************************************************************)
(* The state machine.  op, arg and result record the last call; snapshot   *)
(* is info as it was before the last accepted block, and undo tells        *)
(* whether that block was just added or just removed again.                *)
(***************************************************************************)
Init ==
    LET engine == Blockchain_new(<<>>)
    IN  /\ info = engine.info
        /\ db = engine.db
        /\ randomx_cache = engine.randomx_cache
        /\ op = "new"
        /\ arg = <<>>
        /\ result = "Ok"
        /\ snapshot = engine.info
        /\ undo = "none"
        /\ calls = 0
        /\ merkle_tree = <<>>
        /\ merkle_proof = <<>>
        /\ new_layers = <<>>
        /\ state = Node_listen(Node_create(CustomConfiguration))
        /\ handlers = [c \in Connections |-> Spawned]
        /\ pending = <<>>
        /\ swap_state = <<>>

Call(name, a, after) ==
    /\ info' = after.info
    /\ db' = after.db
    /\ randomx_cache' = after.randomx_cache
    /\ op' = name
    /\ arg' = a
    /\ result' = after.err
    /\ calls' = IF after.err = "Ok" THEN calls + 1 ELSE calls
    /\ UNCHANGED <<merkle_tree, merkle_proof, new_layers, state, handlers, pending, swap_state>>

\* a caller stops at the first error it is returned (the ? of the tests),
\* and after MaxCalls calls
Running == result = "Ok" /\ calls < MaxCalls

\* the blocks a caller hands to add_block: a block mined for the current
\* chain, or a block of the chain once more
Candidates(self) ==
    (IF self.info.height < MaxHeight
     THEN {mine_block(self, timestamp, F) :
               timestamp \in TimeStamps, F \in FaultSets}
     ELSE {})
        \cup StoredBlocks(self)

AddBlock ==
    /\ Running
    /\ \E block \in Candidates(Self) :
        \E after \in {add_block(Self, block)} :
            /\ Call("add_block", <<block>>, after)
            /\ snapshot' = IF after.err = "Ok" THEN info ELSE snapshot
            /\ undo' = IF after.err = "Ok" THEN "added" ELSE "none"

DelTopBlock ==
    /\ Running
    /\ \E after \in {del_top_block(Self)} :
        /\ Call("del_top_block", <<>>, after)
        /\ undo' = IF after.err = "Ok" /\ undo = "added" THEN "undone" ELSE "none"
        /\ UNCHANGED snapshot

GetBlock ==
    /\ Running
    /\ \E hash \in {info.top_block_hash, WrongHash} :
        /\ op' = "get_block"
        /\ arg' = <<hash>>
        /\ result' = get_block(Self, hash).err
        /\ undo' = "none"
        /\ UNCHANGED <<info, db, randomx_cache, snapshot, calls, merkle_tree,
                       merkle_proof, new_layers, state, handlers, pending, swap_state>>

Next == AddBlock \/ DelTopBlock \/ GetBlock

Spec == Init /\ [][Next]_vars

\* The stores a directory can hold when the engine is opened on it again:
\* the store as the engine left it; that store with the chain info of the
\* engine in its blockchain_info record; and the latter without the envelope
\* of the top block, as a writer that stopped between its writes leaves it.
ClosedStores(self) ==
    LET saved == DbPut(self.db, BlockchainInfoKey, self.info)
    IN  {self.db, saved,
         DbDelete(saved, KeyType_make_key(KeyType_Block, self.info.top_block_hash))}

\* Blockchain::new on a directory the engine was closed on
Open ==
    /\ Running
    /\ \E d \in ClosedStores(Self) : \E engine \in {Blockchain_new(d)} :
        /\ info' = engine.info
        /\ db' = engine.db
        /\ randomx_cache' = engine.randomx_cache
        /\ op' = "new"
        /\ arg' = <<d>>
        /\ result' = "Ok"
        /\ calls' = MaxCalls
        /\ undo' = "none"
        /\ UNCHANGED <<snapshot, merkle_tree, merkle_proof, new_layers, state, handlers,
                       pending, swap_state>>

\* the engine runs until it is closed and opened again; the open takes the
\* calls that were left, so a behaviour ends with it
NextOpen == AddBlock \/ DelTopBlock \/ GetBlock \/ Open

SpecOpen == Init /\ [][NextOpen]_vars

(***************************************************************************)
(* The Merkle tree and its proofs as a caller uses them                    *)
(* (merkle_tree/tests/test.rs): a tree is built over a list of leaves, a   *)
(* proof is asked for a hash and checked against a root.  A proof can also *)
(* arrive from outside (MerkleProof derives Deserialize), with one         *)
(* left_hash that differs from the proof that was built.                   *)
(***************************************************************************)
MaxLeaves == 8

\* vec![b; 2] for the leaf number b, as the first leaf of the test
Leaf(b) == Repeat(b, 2)

LeafLists == {[i \in 1..n |-> Leaf(i)] : n \in 1..MaxLeaves}

\* [0u8; 28] in the source; Merkle hashes are 2 bytes wide here
ZeroRoot == <<0, 0>>

LeafHashes(tree) == {tree.layers[1][i].hash : i \in 1..Len(tree.layers[1])}

\* the engine and the network node are left as they were constructed
EngineUnchanged ==
    UNCHANGED <<info, db, randomx_cache, snapshot, undo, calls, state, handlers,
                pending, swap_state>>

\* a panic ends the process
MerkleRunning == result # "Panic"

MerkleTreeNew ==
    /\ merkle_tree = <<>>
    /\ \E leafs \in LeafLists :
        /\ merkle_tree' = <<MerkleTree_new(leafs)>>
        /\ merkle_proof' = <<>>
        /\ op' = "MerkleTree::new"
        /\ arg' = <<leafs>>
        /\ result' = "Ok"
    /\ UNCHANGED new_layers
    /\ EngineUnchanged

GetProof ==
    /\ MerkleRunning /\ merkle_tree # <<>>
    /\ \E hash \in LeafHashes(merkle_tree[1]) \cup {ZeroRoot} :
       \E proof \in {MerkleTree_get_proof(merkle_tree[1], hash)} :
        /\ merkle_proof' = IF proof.err = "Ok" THEN <<proof.val>> ELSE <<>>
        /\ op' = "get_proof"
        /\ arg' = <<hash>>
        /\ result' = proof.err
    /\ UNCHANGED <<merkle_tree, new_layers>>
    /\ EngineUnchanged

\* a proof is read that differs from the built one in the left_hash of one
\* layer
ReadProof ==
    /\ op = "get_proof" /\ result = "Ok"
    /\ \E i \in 1..Len(merkle_proof[1]) :
       \E left_hash \in {ZeroRoot, merkle_tree[1].root} \ {merkle_proof[1][i].left_hash} :
        /\ merkle_proof' = <<[merkle_proof[1] EXCEPT ![i].left_hash = left_hash]>>
        /\ op' = "read_proof"
        /\ arg' = <<i, left_hash>>
        /\ result' = "Ok"
    /\ UNCHANGED <<merkle_tree, new_layers>>
    /\ EngineUnchanged

IsProof ==
    /\ MerkleRunning /\ merkle_proof # <<>>
    /\ \E merkle_root \in {merkle_tree[1].root, ZeroRoot, merkle_tree[1].layers[1][1].hash} :
       \E build \in Builds :
       \E answer \in {is_proof(merkle_proof[1], merkle_root, build)} :
        /\ op' = "is_proof"
        /\ arg' = <<merkle_root, build>>
        /\ result' = IF answer.err # "Ok" THEN answer.err
                     ELSE IF answer.val THEN "true" ELSE "false"
    /\ UNCHANGED <<merkle_tree, merkle_proof, new_layers>>
    /\ EngineUnchanged

NextMerkle == MerkleTreeNew \/ GetProof \/ ReadProof \/ IsProof

SpecMerkle == Init /\ [][NextMerkle]_vars

(***************************************************************************)
(* MerkleTree::new step by step: new_layers is its local `layers` while    *)
(* the loop runs, and every list of leaves is an input, the empty one      *)
(* too.  A build that is under way goes on (weak fairness of its steps).   *)
(***************************************************************************)
MaxBuildLeaves == 5

\* the layers the loop is followed for
MaxLayers == 6

BuildLeafLists == UNION {[1..n -> {Leaf(1), Leaf(2)}] : n \in 0..MaxBuildLeaves}

\* let first_layer = Layer::from_leafs(&leafs); layers.push(first_layer)
BuildStart ==
    /\ merkle_tree = <<>> /\ new_layers = <<>>
    /\ \E leafs \in BuildLeafLists :
        /\ new_layers' = <<TreeLayer_from_leafs(leafs)>>
        /\ op' = "MerkleTree::new loop"
        /\ arg' = <<leafs>>
    /\ UNCHANGED <<result, merkle_tree, merkle_proof>>
    /\ EngineUnchanged

\* one turn of `for i in 0..` that does not break
BuildStep ==
    /\ op = "MerkleTree::new loop"
    /\ Len(new_layers[Len(new_layers)]) # 1
    /\ Len(new_layers) < MaxLayers
    /\ new_layers' =
          Append([new_layers EXCEPT ![Len(new_layers)] = TreeLayer_set_parents(@)],
                 TreeLayer_from_layer(new_layers[Len(new_layers)]))
    /\ UNCHANGED <<op, arg, result, merkle_tree, merkle_proof>>
    /\ EngineUnchanged

\* the break at a last layer of one node, and the tree that is returned
BuildEnd ==
    /\ op = "MerkleTree::new loop"
    /\ Len(new_layers[Len(new_layers)]) = 1
    /\ merkle_tree' = <<MerkleTree_of(new_layers)>>
    /\ new_layers' = <<>>
    /\ op' = "MerkleTree::new"
    /\ UNCHANGED <<arg, result, merkle_proof>>
    /\ EngineUnchanged

NextBuild == BuildStart \/ BuildStep \/ BuildEnd

SpecBuild == Init /\ [][NextBuild]_vars /\ WF_vars(NextBuild)

(***************************************************************************)
(* Properties of the engine.                                               *)
(***************************************************************************)
\* the errors of the checks of add_block
ValidationErrors ==
    {"BlockAlreadyExists", "SkippedBlock", "BlockNotAtTop",
     "BlockPreviousHashWrong", "BlockTargetDifficultyWrong",
     "BlockTimestampTooEarly", "BlockInFuture", "BlockNotEnoughWork",
     "BlockEntryDifficultyWrong", "BlockMaxAllowedEntryDifficultyWrong",
     "InvalidMerkleRoot", "BlockTooBig", "Other(NoPublicKeyFound)",
     "Other(InvalidSignature)", "InvalidHash"}

\* an envelope is stored under the hash
IsStored(self, hash) ==
    DbGet(self.db, KeyType_make_key(KeyType_Block, hash)) # <<>>

\* C1: add_block(B) followed at once by del_top_block() leaves every field
\* of info as it was before the add, from every reachable state, the empty
\* chain and a chain of height 1 included.
C1_AddThenDelRestoresInfo == undo = "undone" => info = snapshot

\* C2: when add_block returns the error of one of its checks, info, the
\* RandomX cache and the store are as they were before the call.
C2_RejectionChangesNothing ==
    [][(op' = "add_block" /\ result' \in ValidationErrors)
          => (info' = info /\ db' = db /\ randomx_cache' = randomx_cache)]_vars

\* a block was rejected by the last check, on a chain that holds blocks
C2_Witness ==
    op = "add_block" /\ result = "InvalidHash" /\ info.height >= 1

\* the outcome of each check for a block, in the order of the list of checks
CheckOutcomes(self, block) ==
    <<IF IsStored(self, block.hash) THEN "BlockAlreadyExists" ELSE "Ok",
      check_height(self, block),
      check_previous_hash(self, block),
      check_difficulty_target(self, block),
      check_timestamp_floor(self, block),
      check_timestamp_ceiling(self, block),
      check_work(self, block),
      check_entry_difficulty(self, block),
      check_max_allowed_entry_difficulty(self, block),
      check_merkle_root(self, block),
      check_size(self, block),
      check_signature(self, block),
      check_hash(self, block)>>

ViolatedChecks(self, block) ==
    {i \in 1..13 : CheckOutcomes(self, block)[i] # "Ok"}

\* C3: a block that violates more than one check is answered with the error
\* of the earliest violated check, in the order duplicate, height, previous
\* hash, target, timestamp floor, timestamp ceiling, work, entry difficulty,
\* max allowed entry difficulty, Merkle root, size, signatures, hash.
C3_EarliestViolatedCheck ==
    [][(op' = "add_block" /\ Cardinality(ViolatedChecks(Self, arg'[1])) > 1)
          => \E i \in ViolatedChecks(Self, arg'[1]) :
                /\ \A j \in ViolatedChecks(Self, arg'[1]) : i <= j
                /\ result' = CheckOutcomes(Self, arg'[1])[i]]_vars

\* C4: once add_block(B) has succeeded, get_block(B.hash) succeeds and
\* returns B.
C4_GetBlockReturnsAccepted ==
    (op = "add_block" /\ result = "Ok")
        => get_block(Self, arg[1].hash) = Ok(arg[1])

\* C5: add_block of a block whose hash is stored fails with
\* BlockAlreadyExists, whatever its other fields, and changes nothing.
C5_DuplicateRejected ==
    [][(op' = "add_block" /\ IsStored(Self, arg'[1].hash))
          => /\ result' = "BlockAlreadyExists"
             /\ info' = info /\ db' = db /\ randomx_cache' = randomx_cache]_vars

\* the envelopes of the store
StoredEnvelopes(d) ==
    {d[k] : k \in {x \in DOMAIN d : x # BlockchainInfoKey /\ x[1] = KeyType_Block}}

\* C6: for a block whose hash is not stored, add_block fails with
\* SkippedBlock when its height is above info.height + 1 and with
\* BlockNotAtTop when it is info.height or less; only a block at
\* info.height + 1 is accepted, and the store never holds two blocks of the
\* same height.
C6_OnlyNextHeightAccepted ==
    [][/\ (op' = "add_block" /\ ~IsStored(Self, arg'[1].hash))
            => /\ arg'[1].header.height > info.height + 1
                    => result' = "SkippedBlock"
               /\ arg'[1].header.height <= info.height
                    => result' = "BlockNotAtTop"
               /\ result' = "Ok" => arg'[1].header.height = info.height + 1
       /\ \A e1, e2 \in StoredEnvelopes(db') :
            e1.header.height = e2.header.height => e1 = e2]_vars

\* a block two above the top of a chain that holds blocks was turned down
C6_Witness ==
    /\ op = "add_block" /\ result = "SkippedBlock"
    /\ info.height >= 1 /\ arg[1].header.height = info.height + 2

\* heights past the top that the index is looked up at
HeightsAbove == (info.height + 1)..(MaxHeight + 1)

\* C7: for every h in 1..info.height the height index holds a hash x, the
\* header stored under x has height h, and info.top_block_hash is the hash at
\* info.height; the index holds nothing for a height above info.height.
C7_HeightHashDuality ==
    /\ \A h \in 1..info.height :
          /\ get_block_hash(db, h).err = "Ok"
          /\ get_block_header(db, get_block_hash(db, h).val).err = "Ok"
          /\ get_block_header(db, get_block_hash(db, h).val).val.height = h
    /\ info.height >= 1 => info.top_block_hash = get_block_hash(db, info.height).val
    /\ \A h \in HeightsAbove : get_block_hash(db, h).err = "CantFindHashFromHeight"

\* the top block was removed from a chain that still holds blocks
C7_Witness ==
    op = "del_top_block" /\ result = "Ok" /\ info.height >= 1

\* C8: with L the lifetime of a key and h = info.height, info.randomx_vm_key
\* is the hash of the block at height L * (h div L) when h >= L and the zero
\* key otherwise; add_block and del_top_block keep it so.
C8_EpochKey ==
    info.randomx_vm_key =
        IF info.height >= RANDOMX_VM_KEY_LIFETIME
        THEN get_block_hash(db, RANDOMX_VM_KEY_LIFETIME
                                    * (info.height \div RANDOMX_VM_KEY_LIFETIME)).val
        ELSE ZeroHash

\* the first block of an epoch was removed and the key went back to the
\* epoch before it
C8_Witness ==
    /\ op = "del_top_block" /\ result = "Ok"
    /\ (info.height + 1) % RANDOMX_VM_KEY_LIFETIME = 0
    /\ info.randomx_vm_key # ZeroHash

\* C9: at the end of every operation of the engine the RandomX cache is
\* the one built from info.randomx_vm_key, also after a del_top_block that
\* removes the first block of an epoch.
C9_CacheBuiltFromKey == randomx_cache = info.randomx_vm_key

\* the RandomX hash under the key of the epoch over the header
\* concatenation followed by the nonce
EpochPowHash(key, block) ==
    RandomxHash(key, [bytes |-> BlockHeader_concat(block.header)
                                    \o block.randomx_input.bytes,
                      pad |-> block.randomx_input.pad])

\* C10: a block that passes every check before the last is accepted when
\* its hash is the RandomX hash under info.randomx_vm_key over its header
\* concatenation followed by its nonce, and is turned down with InvalidHash
\* otherwise.
C10_HashUnderEpochKey ==
    [][(op' = "add_block" /\ result' \in {"Ok", "InvalidHash"})
          => (result' = "Ok"
                <=> arg'[1].hash = EpochPowHash(info.randomx_vm_key, arg'[1]))]_vars

\* C11: every accepted block has miner_difficulty + entry_difficulty *
\* info.entry_difficulty_multiplier >= info.difficulty, with the multiplier
\* of the chain, and carries that multiplier in its header.
C11_WorkUnderChainMultiplier ==
    [][(op' = "add_block" /\ result' = "Ok")
          => /\ FEq(arg'[1].header.entry_difficulty_multiplier,
                    info.entry_difficulty_multiplier)
             /\ ~FLt(FAdd(FromInt(Block_miner_difficulty(arg'[1])),
                          FMul(Block_entry_difficulty(arg'[1]).val,
                               info.entry_difficulty_multiplier)),
                     info.difficulty)]_vars

\* the block with one float of its header set to the value add_block
\* compares it with
WithChainTarget(self, block) ==
    [block EXCEPT !.header.difficulty_target = self.info.difficulty]

WithOwnEntryDifficulty(self, block) ==
    [block EXCEPT !.header.entry_difficulty = Block_entry_difficulty(block).val]

WithChainMaxAllowed(self, block) ==
    [block EXCEPT !.header.max_allowed_entry_difficulty =
                      self.info.max_allowed_entry_difficulty]

\* block is a block add_block accepts in which one float was changed
ChangedFrom(self, block, accepted) ==
    block # accepted /\ add_block_validate(self, accepted) = "Ok"

\* C12: a block that add_block would accept, with only difficulty_target
\* changed, fails with BlockTargetDifficultyWrong; with only
\* entry_difficulty changed, with BlockEntryDifficultyWrong; with only
\* max_allowed_entry_difficulty changed to a lower or a higher value, with
\* BlockMaxAllowedEntryDifficultyWrong.
C12_ChangedFloatNamesItsError ==
    [][op' = "add_block"
          => /\ ChangedFrom(Self, arg'[1], WithChainTarget(Self, arg'[1]))
                  => result' = "BlockTargetDifficultyWrong"
             /\ ChangedFrom(Self, arg'[1], WithOwnEntryDifficulty(Self, arg'[1]))
                  => result' = "BlockEntryDifficultyWrong"
             /\ ChangedFrom(Self, arg'[1], WithChainMaxAllowed(Self, arg'[1]))
                  => result' = "BlockMaxAllowedEntryDifficultyWrong"]_vars

\* C12 as amended: as C12 for difficulty_target and entry_difficulty; a
\* changed max_allowed_entry_difficulty fails with
\* BlockMaxAllowedEntryDifficultyWrong when the entry difficulty of the
\* block, clamped to the cap of its header, is the same under both caps, and
\* with BlockNotEnoughWork or BlockEntryDifficultyWrong when it is not.
C12_ChangedFloatError ==
    [][op' = "add_block"
          => /\ ChangedFrom(Self, arg'[1], WithChainTarget(Self, arg'[1]))
                  => result' = "BlockTargetDifficultyWrong"
             /\ ChangedFrom(Self, arg'[1], WithOwnEntryDifficulty(Self, arg'[1]))
                  => result' = "BlockEntryDifficultyWrong"
             /\ ChangedFrom(Self, arg'[1], WithChainMaxAllowed(Self, arg'[1]))
                  => IF Block_entry_difficulty(arg'[1])
                          = Block_entry_difficulty(WithChainMaxAllowed(Self, arg'[1]))
                     THEN result' = "BlockMaxAllowedEntryDifficultyWrong"
                     ELSE result' \in {"BlockNotEnoughWork",
                                       "BlockEntryDifficultyWrong"}]_vars

\* a block with only its cap changed was turned down for the cap, on a
\* chain that holds blocks
C12_Witness ==
    /\ op = "add_block" /\ result = "BlockMaxAllowedEntryDifficultyWrong"
    /\ info.height >= 1
    /\ ChangedFrom(Self, arg[1], WithChainMaxAllowed(Self, arg[1]))

\* the positions at which two byte strings of one length differ
DifferingBytes(x, y) == {k \in 1..Len(x) : x[k] # y[k]}

\* block is the block accepted with one byte of one of its entries changed
OneEntryByteChanged(block, accepted) ==
    /\ block.header = accepted.header
    /\ block.hash = accepted.hash
    /\ block.randomx_input = accepted.randomx_input
    /\ Len(block.entries) = Len(accepted.entries)
    /\ \E i \in 1..Len(block.entries) :
          /\ \A j \in 1..Len(block.entries) :
                j # i => block.entries[j] = accepted.entries[j]
          /\ Len(to_bytes(block.entries[i]).val)
                = Len(to_bytes(accepted.entries[i]).val)
          /\ Cardinality(DifferingBytes(to_bytes(block.entries[i]).val,
                                        to_bytes(accepted.entries[i]).val)) = 1

\* the blocks add_block accepts that block is one entry byte away from
AcceptedNear(self, block) ==
    {a \in {[block EXCEPT !.entries = es] : es \in ChangedEntryLists} :
        OneEntryByteChanged(block, a) /\ add_block_validate(self, a) = "Ok"}

\* C13: a block that add_block would accept, with one byte of one entry
\* changed and the header and the hash left as they were, fails with
\* InvalidMerkleRoot, so before the signature check.
C13_EntryByteGivesMerkleError ==
    [][(op' = "add_block" /\ AcceptedNear(Self, arg'[1]) # {})
          => result' = "InvalidMerkleRoot"]_vars

\* C13 as amended: such a block fails with InvalidMerkleRoot when the
\* changed byte leaves the entry difficulty of the block as it was, and
\* with BlockNotEnoughWork or BlockEntryDifficultyWrong when it does not;
\* in every case before the signature check.
C13_EntryByteError ==
    [][op' = "add_block"
          => \A a \in AcceptedNear(Self, arg'[1]) :
                IF Block_entry_difficulty(arg'[1]) = Block_entry_difficulty(a)
                THEN result' = "InvalidMerkleRoot"
                ELSE result' \in {"BlockNotEnoughWork",
                                  "BlockEntryDifficultyWrong"}]_vars

\* a block with one entry byte changed was turned down for its Merkle root
C13_Witness ==
    /\ op = "add_block" /\ result = "InvalidMerkleRoot"
    /\ AcceptedNear(Self, arg[1]) # {}

\* the checks of add_block before the timestamp checks all pass
PassesUpToTarget(self, block) ==
    /\ ~IsStored(self, block.hash)
    /\ check_height(self, block) = "Ok"
    /\ check_previous_hash(self, block) = "Ok"
    /\ check_difficulty_target(self, block) = "Ok"

\* C14: an accepted block has info.past_median_timestamp <= timestamp <=
\* info.network_adjusted_time + 3600, both ends included, with info as it is
\* at the call; a block that comes as far as the timestamp checks fails with
\* BlockTimestampTooEarly below the floor and with BlockInFuture above the
\* ceiling, and with neither in between.
C14_TimestampWindow ==
    [][op' = "add_block"
          => LET ts == arg'[1].header.timestamp
                 floor == info.past_median_timestamp
                 ceiling == info.network_adjusted_time + FUTURE_TOLERANCE
             IN  /\ result' = "Ok" => (floor <= ts /\ ts <= ceiling)
                 /\ PassesUpToTarget(Self, arg'[1])
                      => /\ ts < floor <=> result' = "BlockTimestampTooEarly"
                         /\ (ts >= floor /\ ts > ceiling)
                                <=> result' = "BlockInFuture"]_vars

\* a block whose timestamp is the ceiling itself was accepted on a chain
\* whose floor is above zero
C14_Witness ==
    /\ op = "add_block" /\ result = "Ok"
    /\ snapshot.past_median_timestamp > 0
    /\ arg[1].header.timestamp = snapshot.network_adjusted_time + FUTURE_TOLERANCE

\* BlockchainError.kind, and the kind of the BlockError it wraps
ErrorKindOf(r) ==
    IF r \in {"Other", "Other(NoPublicKeyFound)", "Other(InvalidSignature)",
              "Other(TooManyCoinfileHashes)", "Other(PoWTooLong)"}
    THEN "Other" ELSE r

ErrorCauseOf(r) ==
    CASE r = "Other(NoPublicKeyFound)" -> "NoPublicKeyFound"
      [] r = "Other(InvalidSignature)" -> "InvalidSignature"
      [] r = "Other(TooManyCoinfileHashes)" -> "TooManyCoinfileHashes"
      [] r = "Other(PoWTooLong)" -> "PoWTooLong"
      [] OTHER -> "None"

\* checks 1 to 11 of add_block all pass
PassesUpToSize(self, block) ==
    /\ PassesUpToTarget(self, block)
    /\ check_timestamp_floor(self, block) = "Ok"
    /\ check_timestamp_ceiling(self, block) = "Ok"
    /\ check_work(self, block) = "Ok"
    /\ check_entry_difficulty(self, block) = "Ok"
    /\ check_max_allowed_entry_difficulty(self, block) = "Ok"
    /\ check_merkle_root(self, block) = "Ok"
    /\ check_size(self, block) = "Ok"

\* an entry names its key by an index the public-key table has no record of
HasUnknownKeyIndex(self, block) ==
    \E i \in 1..Len(block.entries) :
        /\ block.entries[i].public_key = <<>>
        /\ block.entries[i].public_key_index # <<>>
        /\ DbGet(self.db,
                 KeyType_make_key(KeyType_PublicKey,
                                  ToLeBytes8(block.entries[i].public_key_index[1])))
              = <<>>

\* every key is resolved and the aggregate signature does not verify
HasBadSignature(self, block) ==
    /\ ResolvePublicKeys(self.db, block.entries, 1).err = "Ok"
    /\ ~verify_messages(block.header.signature, EntriesBytes(block.entries),
                        ResolvePublicKeys(self.db, block.entries, 1).val)

C16_ReopenKeepsInfo ==
    [][(op \in {"add_block", "del_top_block"} /\ result = "Ok"
        /\ op' = "new" /\ arg'[1] = db)
          => info' = info]_vars

BuiltProofs(tree) ==
    {MerkleTree_get_proof(tree, hash).val :
        hash \in {h \in LeafHashes(tree) : MerkleTree_get_proof(tree, h).err = "Ok"}}

\* the proof differs from a built one in the left_hash of exactly one layer
OneLeftHashChanged(proof, tree) ==
    \E built \in BuiltProofs(tree) :
        /\ Len(built) = Len(proof)
        /\ \E i \in 1..Len(proof) :
            /\ proof[i].left_hash # built[i].left_hash
            /\ proof = [built EXCEPT ![i].left_hash = proof[i].left_hash]

\* C18: for every non-empty list of distinct leaves and every leaf of it,
\* get_proof of the leaf's hash returns a proof, and is_proof of that proof
\* against the root of the tree is true.
C18_EveryLeafProves ==
    /\ (op = "get_proof" /\ arg[1] \in LeafHashes(merkle_tree[1]))
          => result = "Ok"
    /\ (op = "is_proof" /\ arg[1] = merkle_tree[1].root
        /\ merkle_proof[1] \in BuiltProofs(merkle_tree[1]))
          => result = "true"

\* C19: a proof in which the left_hash of one layer is replaced by another
\* value is not a proof of the root: is_proof(root) is false.
C19_ChangedLeftHashRejected ==
    (op = "is_proof" /\ arg[1] = merkle_tree[1].root
     /\ OneLeftHashChanged(merkle_proof[1], merkle_tree[1]))
       => result = "false"

\* C20: is_proof of a built proof answers true or false for a proof of every
\* length, and false for every root other than the root of the tree.
C20_WrongRootRejected ==
    (op = "is_proof" /\ merkle_proof[1] \in BuiltProofs(merkle_tree[1]))
       => /\ result \in {"true", "false"}
          /\ arg[1] # merkle_tree[1].root => result = "false"

\* a tree was built from exactly one leaf
SingleLeafTree ==
    merkle_tree # <<>> /\ Len(merkle_tree[1].layers[1]) = 1

\* C21: for a tree built from one leaf a the root is merkle_hash(a),
\* get_proof(merkle_hash(a)) returns a proof of length 1, is_proof(root) on
\* it is true and is_proof of the all-zero root is false.
C21_SingleLeafProof ==
    SingleLeafTree
      => /\ op = "MerkleTree::new" => merkle_tree[1].root = merkle_hash(arg[1][1])
         /\ (op = "get_proof" /\ arg[1] = merkle_tree[1].root)
              => (result = "Ok" /\ Len(merkle_proof[1]) = 1)
         /\ (op = "is_proof" /\ arg[1] = merkle_tree[1].root) => result = "true"
         /\ (op = "is_proof" /\ arg[1] = ZeroRoot) => result = "false"

\* the hashes of layer l + 1 are those of the pairs of layer l, and the hash
\* of a last node without a partner is taken over as it is
NextLayerOf(layers, l) ==
    /\ Len(layers[l + 1]) = (Len(layers[l]) + 1) \div 2
    /\ \A j \in 1..Len(layers[l + 1]) :
          layers[l + 1][j].hash =
              IF 2 * j <= Len(layers[l])
              THEN merkle_hash(layers[l][2 * j - 1].hash \o layers[l][2 * j].hash)
              ELSE layers[l][2 * j - 1].hash

\* C22: the layers of a tree over n >= 1 leaves have the sizes n, ceil(n/2),
\* ..., 1; node j of a layer is merkle_hash(L || R) of the nodes 2j and 2j+1
\* (counted from 0) of the layer below, a last node without a partner is
\* carried up with its hash unchanged, and the root is the one node of the
\* last layer, so that the root of [a] is merkle_hash(a).
C22_LayersPairAndCarry ==
    op = "MerkleTree::new"
      => LET layers == merkle_tree[1].layers
             leafs == arg[1]
         IN  /\ Len(layers[1]) = Len(leafs)
             /\ \A i \in 1..Len(leafs) : layers[1][i].hash = merkle_hash(leafs[i])
             /\ \A l \in 1..(Len(layers) - 1) :
                   Len(layers[l]) > 1 /\ NextLayerOf(layers, l)
             /\ Len(layers[Len(layers)]) = 1
             /\ merkle_tree[1].root = layers[Len(layers)][1].hash
             /\ Len(leafs) = 1 => merkle_tree[1].root = merkle_hash(leafs[1])

\* a tree over five leaves was built: layers of 5, 3, 2 and 1 nodes
C22_Witness ==
    /\ op = "MerkleTree::new" /\ Len(arg[1]) = 5
    /\ [l \in 1..Len(merkle_tree[1].layers) |-> Len(merkle_tree[1].layers[l])]
          = <<5, 3, 2, 1>>

\* C23: MerkleTree::new terminates on every list of leaves, the empty one
\* included: every build that is started returns.
C23_BuildTerminates == <>(op = "MerkleTree::new")

(***************************************************************************)
(* The entry codec on its own: Entry::to_bytes, Entry::from_bytes and      *)
(* Entry::difficulty applied to entries, byte strings and digests a caller *)
(* can hand them (block.rs serialization_test builds one such entry).      *)
(***************************************************************************)
CodecHashes(n) == [i \in 1..n |-> Repeat(i % 256, COINFILE_HASH_LEN)]

CodecProofOfWork(n) == [i \in 1..n |-> (i * 7) % 256]

CodecEntries ==
    {Entry_new(CodecHashes(n), Repeat(4, OUTPUT_HASH_LEN), pk, idx, CodecProofOfWork(w)) :
        n \in {0, 1, 2, MAX_COINFILE_HASHES, MAX_COINFILE_HASHES + 1},
        pk \in {<<>>, <<Repeat(9, PUBLIC_KEY_LEN)>>},
        idx \in {<<>>, <<0>>, <<258>>},
        w \in {0, 1, MAX_PROOF_OF_WORK_LEN, MAX_PROOF_OF_WORK_LEN + 1}}

\* what a caller appends to a serialized entry
CodecSuffixes == {<<0>>, <<1, 2>>}

\* where a serialized entry holds its discriminant: after the count byte,
\* the coinfile hashes and the output hash
DiscriminantAt(bytes) == 2 + COINFILE_HASH_LEN * bytes[1] + OUTPUT_HASH_LEN

WithDiscriminant(bytes, d) == [bytes EXCEPT ![DiscriminantAt(bytes)] = d]

\* the byte strings handed to from_bytes: a serialized entry, one followed
\* by a suffix, ones cut short (by a byte, after the count byte, inside the
\* hashes, after the discriminant), the empty string, and one whose
\* discriminant is neither 0 nor 1
CodecInputs(bytes) ==
    {bytes, SubSeq(bytes, 1, Len(bytes) - 1)} \cup {bytes \o s : s \in CodecSuffixes}
        \cup {<<>>, WithDiscriminant(bytes, 2)}
        \cup {SubSeq(bytes, 1, n) : n \in {1, COINFILE_HASH_LEN, DiscriminantAt(bytes)}}

\* the digests self.hash() hands to the loop of Entry::difficulty
\* (3 bytes here, 64 in the source)
CodecDigests == [1..3 -> {0, 1, 64, 128, 255}]

CodecUnchanged ==
    UNCHANGED <<info, db, randomx_cache, snapshot, undo, calls,
                merkle_tree, merkle_proof, new_layers, state, handlers, pending, swap_state>>

EntryToBytes ==
    /\ \E e \in CodecEntries :
          /\ op' = "Entry::to_bytes"
          /\ arg' = <<e>>
          /\ result' = Entry_to_bytes(e)
    /\ CodecUnchanged

EntryFromBytes ==
    /\ op = "Entry::to_bytes"
    /\ result.err = "Ok"
    /\ \E bytes \in CodecInputs(result.val) :
          /\ op' = "Entry::from_bytes"
          /\ arg' = <<bytes>>
          /\ result' = Entry_from_bytes(bytes)
    /\ CodecUnchanged

EntryDifficulty ==
    /\ \E digest \in CodecDigests :
          /\ op' = "Entry::difficulty"
          /\ arg' = <<digest>>
          /\ result' = Ok(Pow2(EntryLeadingZeros(digest, 1)))
    /\ CodecUnchanged

\* the blocks handed to Block::to_bytes: the blocks callers build for the
\* chain of the engine, well-formed or with one field replaced
BlockToBytes ==
    /\ \E block \in Candidates(Self) :
          /\ op' = "Block::to_bytes"
          /\ arg' = <<block>>
          /\ result' = Block_to_bytes(block)
    /\ CodecUnchanged

BlockFromBytes ==
    /\ op = "Block::to_bytes"
    /\ result.err = "Ok"
    /\ op' = "Block::from_bytes"
    /\ arg' = <<result.val>>
    /\ result' = Block_from_bytes(result.val)
    /\ CodecUnchanged

NextCodec ==
    \/ EntryToBytes
    \/ EntryFromBytes
    \/ EntryDifficulty
    \/ BlockToBytes
    \/ BlockFromBytes

SpecCodec == Init /\ [][NextCodec]_vars

\* an entry of the kind serialization is defined for: 1..255 coinfile
\* hashes, exactly one of key and key index, at most 255 bytes of work
WellFormedEntry(e) ==
    /\ Len(e.coinfile_hashes) \in 1..MAX_COINFILE_HASHES
    /\ (e.public_key = <<>>) # (e.public_key_index = <<>>)
    /\ e.public_key # <<>> => Len(e.public_key[1]) = PUBLIC_KEY_LEN
    /\ Len(e.proof_of_work) \in 0..MAX_PROOF_OF_WORK_LEN

\* C24: a well-formed entry (1..255 coinfile hashes, exactly one of a
\* 48-byte public key and a key index, 0..255 bytes of proof of work)
\* serializes, and from_bytes of exactly those bytes succeeds and returns
\* the entry field for field.
C24_EntryRoundTrip ==
    [][/\ (op' = "Entry::to_bytes" /\ WellFormedEntry(arg'[1]))
           => result'.err = "Ok"
       /\ (/\ op = "Entry::to_bytes"
           /\ WellFormedEntry(arg[1])
           /\ op' = "Entry::from_bytes"
           /\ arg'[1] = result.val)
           => result' = Ok(arg[1])]_vars

\* the round trip has run on an entry with a key index, the most coinfile
\* hashes and the longest proof of work
C24_Witness ==
    /\ op = "Entry::from_bytes"
    /\ result.err = "Ok"
    /\ WellFormedEntry(result.val)
    /\ result.val.public_key_index = <<258>>
    /\ Len(result.val.coinfile_hashes) = MAX_COINFILE_HASHES
    /\ Len(result.val.proof_of_work) = MAX_PROOF_OF_WORK_LEN
    /\ Entry_to_bytes(result.val) = Ok(arg[1])

\* C25: from_bytes rejects trailing bytes: for a well-formed entry e and a
\* non-empty suffix s, from_bytes(to_bytes(e) ++ s) is an error.
C25_TrailingBytesRejected ==
    [][(/\ op = "Entry::to_bytes"
        /\ WellFormedEntry(arg[1])
        /\ result.err = "Ok"
        /\ op' = "Entry::from_bytes"
        /\ \E s \in CodecSuffixes : arg'[1] = result.val \o s)
       => result'.err # "Ok"]_vars

\* the number of consecutive zero bits a digest starts with
LeadingZeroBits(hash) ==
    LET n == 8 * Len(hash)
        bit(k) == (hash[((k - 1) \div 8) + 1] \div Pow2(7 - ((k - 1) % 8))) % 2
    IN  CHOOSE z \in 0..n :
            /\ \A k \in 1..z : bit(k) = 0
            /\ z = n \/ bit(z + 1) = 1

\* C26: for every entry digest Entry::difficulty returns 2^z, z the number
\* of leading zero bits of the digest (the count ends inside the first byte
\* that is not 0x00), the count Block::miner_difficulty makes on a block hash.
C26_EntryDifficultyCountsLeadingZeroBits ==
    op = "Entry::difficulty"
        => /\ result = Ok(Pow2(LeadingZeroBits(arg[1])))
           /\ result.val = Pow2(MinerLeadingZeros(arg[1], 1))

\* the header stored for height k
HeaderAt(k) == get_block_header(db, get_block_hash(db, k).val).val

\* the heights of the window: the min(PREVIOUS_BLOCKS_TO_CONSIDER, height)
\* newest ones
WindowSize == Min(PREVIOUS_BLOCKS_TO_CONSIDER, info.height)

WindowOldest == info.height - WindowSize + 1

RECURSIVE TargetSum(_, _)
TargetSum(lo, hi) ==
    IF lo > hi THEN FromInt(0)
    ELSE FAdd(HeaderAt(hi).difficulty_target, TargetSum(lo, hi - 1))

\* the newest-minus-older timestamp differences of neighbours in lo..hi
RECURSIVE BlockTimeSum(_, _)
BlockTimeSum(lo, hi) ==
    IF lo >= hi THEN 0
    ELSE (HeaderAt(hi).timestamp - HeaderAt(hi - 1).timestamp)
             + BlockTimeSum(lo, hi - 1)

MeanTarget == FDiv(TargetSum(WindowOldest, info.height), FromInt(WindowSize))

MeanBlockTime ==
    FDiv(FromInt(BlockTimeSum(WindowOldest, info.height)), FromInt(WindowSize))

\* C27: after a successful add_block or del_top_block that leaves
\* height >= 2, info.difficulty is (avg_target / avg_block_time) * BLOCK_TIME
\* over the window of the min(PREVIOUS_BLOCKS_TO_CONSIDER, height) newest
\* headers: avg_target the mean of their difficulty_target values,
\* avg_block_time the sum of the timestamp differences of neighbouring
\* window headers divided by the window size.
C27_DifficultyRetarget ==
    (op \in {"add_block", "del_top_block"} /\ result = "Ok" /\ info.height >= 2)
        => info.difficulty
               = FMul(FDiv(MeanTarget, MeanBlockTime), FromInt(BLOCK_TIME))

\* C28: an add_block or del_top_block that leaves height < 2 leaves
\* info.difficulty, info.entry_difficulty_multiplier and
\* info.max_allowed_entry_difficulty as they were.
C28_NoRetargetBelowTwo ==
    [][(op' \in {"add_block", "del_top_block"} /\ info'.height < 2)
        => /\ info'.difficulty = info.difficulty
           /\ info'.entry_difficulty_multiplier = info.entry_difficulty_multiplier
           /\ info'.max_allowed_entry_difficulty
                  = info.max_allowed_entry_difficulty]_vars

\* the second block was removed and the chain of one block keeps the
\* difficulty and the entry limits the second block had set
C28_Witness ==
    /\ op = "del_top_block" /\ result = "Ok" /\ info.height = 1
    /\ info.difficulty # Blockchain_new(<<>>).info.difficulty
    /\ info.max_allowed_entry_difficulty
           # Blockchain_new(<<>>).info.max_allowed_entry_difficulty

\* the height update_median_timestamp reads: MEDIAN_OFFSET below the top,
\* and no lower than the first block
MedianHeight == IF info.height - MEDIAN_OFFSET < 1 THEN 1 ELSE info.height - MEDIAN_OFFSET

NetworkOnly ==
    UNCHANGED <<info, db, randomx_cache, op, arg, result, snapshot, undo, calls,
                merkle_tree, merkle_proof, new_layers, pending>>

\* the values of the "client" header: the two classes, another value, a
\* value that is not visible ASCII (to_str() fails), and no header
ClientHeaders == {"node", "wallet", "other", "opaque", "none"}

\* server::handshake(socket).await succeeded: let mut current_state = state.load()
Handshake(c) ==
    /\ handlers[c].pc = "handshake"
    /\ handlers' = [handlers EXCEPT ![c].pc = "accept", ![c].current_state = state]
    /\ UNCHANGED state
    /\ UNCHANGED swap_state
    /\ NetworkOnly

\* the handshake failed, or connection.accept() returned None: handle returns
Close(c) ==
    /\ handlers[c].pc \in {"handshake", "accept"}
    /\ handlers' = [handlers EXCEPT ![c].pc = "closed"]
    /\ UNCHANGED state
    /\ UNCHANGED swap_state
    /\ NetworkOnly

\* the counter of a class and its cap in a copy of the state
Connections_of(s, class) ==
    IF class = "node" THEN s.node_connections ELSE s.wallet_connections

Cap_of(s, class) ==
    IF class = "node" THEN s.configuration.max_node_connections
    ELSE s.configuration.max_wallet_connections

WithConnections(s, class, n) ==
    IF class = "node" THEN [s EXCEPT !.node_connections = n]
    ELSE [s EXCEPT !.wallet_connections = n]

\* a request of a class below its cap in current_state: the counter of the
\* copy goes up, state.swap(current_state), and 200 is sent
Admit(c, class) ==
    /\ handlers[c].pc = "accept"
    /\ Connections_of(handlers[c].current_state, class)
           # Cap_of(handlers[c].current_state, class)
    /\ \E admitted \in {WithConnections(handlers[c].current_state, class,
                            Connections_of(handlers[c].current_state, class) + 1)} :
          /\ state' = admitted
          /\ handlers' = [handlers EXCEPT ![c].pc = "stream",
                                          ![c].current_state = admitted,
                                          ![c].client = class]
    /\ UNCHANGED swap_state
    /\ NetworkOnly

\* a request that is turned down: 500 at the cap, 400 without a class; the
\* header that is not ASCII aborts the task at to_str().unwrap()
Reject(c, header) ==
    /\ handlers[c].pc = "accept"
    /\ header \in {"node", "wallet"}
           => Connections_of(handlers[c].current_state, header)
                  = Cap_of(handlers[c].current_state, header)
    /\ handlers' = [handlers EXCEPT
                       ![c].pc = IF header = "opaque" THEN "panicked" ELSE "accept"]
    /\ UNCHANGED state
    /\ UNCHANGED swap_state
    /\ NetworkOnly

\* direct_stream has returned (or send_response failed): the counter of the
\* copy goes down and state.swap(current_state)
Finish(c) ==
    /\ handlers[c].pc = "stream"
    /\ \E finished \in {WithConnections(handlers[c].current_state, handlers[c].client,
                            Connections_of(handlers[c].current_state,
                                           handlers[c].client) - 1)} :
          /\ state' = finished
          /\ handlers' = [handlers EXCEPT ![c].pc = "accept",
                                          ![c].current_state = finished,
                                          ![c].client = "None"]
    /\ UNCHANGED swap_state
    /\ NetworkOnly

Handle(c) ==
    \/ Handshake(c)
    \/ Close(c)
    \/ \E class \in {"node", "wallet"} : Admit(c, class)
    \/ \E header \in ClientHeaders : Reject(c, header)
    \/ Finish(c)

\* Node::swap up to its load: let mut state = self.state.load()
SwapLoad ==
    /\ swap_state = <<>>
    /\ swap_state' = <<state>>
    /\ UNCHANGED <<state, handlers>>
    /\ NetworkOnly

\* the rest of Node::swap: state.configuration = configuration;
\* self.state.swap(state)
SwapStore ==
    /\ swap_state # <<>>
    /\ state' = [swap_state[1] EXCEPT !.configuration = SwappedConfiguration]
    /\ swap_state' = <<>>
    /\ UNCHANGED handlers
    /\ NetworkOnly

NextNetwork == (\E c \in Connections : Handle(c)) \/ SwapLoad \/ SwapStore

SpecNetwork == Init /\ [][NextNetwork]_vars

\* the requests of a class that were answered 200 and have not finished
InFlight(class) ==
    {c \in Connections : handlers[c].pc = "stream" /\ handlers[c].client = class}

\* C30: under every interleaving of the connection tasks the shared
\* node_connections counter is the number of node requests that were
\* admitted and have not finished and is at most max_node_connections, and
\* likewise wallet_connections and max_wallet_connections; both counters
\* are 0 when no request is in flight.
C30_CountersMatchInFlight ==
    \A class \in {"node", "wallet"} :
        /\ Connections_of(state, class) = Cardinality(InFlight(class))
        /\ Connections_of(state, class) <= Cap_of(state, class)

(***************************************************************************)
(* The engine write by write.                                              *)
(***************************************************************************)
WritesOnly ==
    UNCHANGED <<snapshot, undo, merkle_tree, merkle_proof, new_layers, state, handlers,
                swap_state>>

\* add_block up to its first write: the checks, and on success the
\* assignments of lib.rs lines 162-164
StartAddBlock ==
    /\ Running
    /\ pending = <<>>
    /\ \E block \in Candidates(Self) :
        \E checked \in {add_block_validate(Self, block)} :
            /\ op' = "add_block"
            /\ arg' = <<block>>
            /\ result' = IF checked = "Ok" THEN "InProgress" ELSE checked
            /\ info' = IF checked = "Ok"
                       THEN [info EXCEPT !.height = @ + 1,
                                         !.top_block_hash = block.hash,
                                         !.is_empty = FALSE]
                       ELSE info
            /\ pending' = IF checked = "Ok" THEN add_block_writes(block) ELSE <<>>
    /\ UNCHANGED <<db, randomx_cache, calls>>
    /\ WritesOnly

\* del_top_block up to its first delete: lib.rs lines 187-188
StartDelTopBlock ==
    /\ Running
    /\ pending = <<>>
    /\ \E block_hash \in {get_block_hash(db, info.height)} :
        \E block_header \in {IF block_hash.err = "Ok"
                             THEN get_block_header(db, block_hash.val)
                             ELSE block_hash} :
            /\ op' = "del_top_block"
            /\ arg' = IF block_header.err = "Ok" THEN <<block_header.val>> ELSE <<>>
            /\ result' = IF block_header.err = "Ok" THEN "InProgress"
                         ELSE block_header.err
            /\ pending' = IF block_header.err = "Ok"
                          THEN del_top_block_writes(block_hash.val, block_header.val)
                          ELSE <<>>
    /\ UNCHANGED <<info, db, randomx_cache, calls>>
    /\ WritesOnly

\* a write that is not the last one of its call
IssueWrite ==
    /\ Len(pending) > 1
    /\ db' = DbApply(db, Head(pending))
    /\ pending' = Tail(pending)
    /\ UNCHANGED <<info, randomx_cache, op, arg, result, calls>>
    /\ WritesOnly

\* the last write of add_block and the rest of the call
FinishAddBlock ==
    /\ op = "add_block"
    /\ Len(pending) = 1
    /\ \E after \in {add_block_finish(
                         [info |-> info, db |-> DbApply(db, Head(pending)),
                          randomx_cache |-> randomx_cache, err |-> "Ok"])} :
          /\ info' = after.info
          /\ db' = after.db
          /\ randomx_cache' = after.randomx_cache
          /\ result' = after.err
    /\ pending' = <<>>
    /\ calls' = calls + 1
    /\ UNCHANGED <<op, arg>>
    /\ WritesOnly

\* the last delete of del_top_block, with the assignments of lib.rs lines
\* 193-194 that precede it, and the rest of the call
FinishDelTopBlock ==
    /\ op = "del_top_block"
    /\ Len(pending) = 1
    /\ \E after \in {del_top_block_finish(
                         [info |-> [info EXCEPT
                                       !.top_block_hash = arg[1].previous_hash,
                                       !.height = @ - 1],
                          db |-> DbApply(db, Head(pending)),
                          randomx_cache |-> randomx_cache, err |-> "Ok"],
                         arg[1])} :
          /\ info' = after.info
          /\ db' = after.db
          /\ randomx_cache' = after.randomx_cache
          /\ result' = after.err
    /\ pending' = <<>>
    /\ calls' = calls + 1
    /\ UNCHANGED <<op, arg>>
    /\ WritesOnly

\* the process stops between two writes
Crash ==
    /\ pending # <<>>
    /\ Len(pending) < 3
    /\ result' = "Crashed"
    /\ pending' = <<>>
    /\ UNCHANGED <<info, db, randomx_cache, op, arg, calls>>
    /\ WritesOnly

NextWrites ==
    \/ StartAddBlock
    \/ StartDelTopBlock
    \/ IssueWrite
    \/ FinishAddBlock
    \/ FinishDelTopBlock
    \/ Crash

SpecWrites == Init /\ [][NextWrites]_vars

\* C31: add_block issues no store write unless all its checks have passed
\* and writes the block envelope, then the height index, then the header;
\* del_top_block deletes the height index, then the header, then the
\* envelope.  So at every point, a process stopped between two writes
\* included, the height index holds no hash whose block envelope is absent.
C31_IndexNeverAheadOfEnvelope ==
    /\ \A k \in DOMAIN db :
          (k # BlockchainInfoKey /\ k[1] = KeyType_BlockHeight)
              => KeyType_make_key(KeyType_Block, db[k]) \in DOMAIN db
    /\ \A k \in DOMAIN db :
          (k # BlockchainInfoKey /\ k[1] = KeyType_BlockHeader)
              => KeyType_make_key(KeyType_Block, SubSeq(k, 2, Len(k))) \in DOMAIN db
    /\ (op = "add_block" /\ result \notin {"Ok", "InProgress", "Crashed"})
          => pending = <<>>

\* the process stopped inside an add_block on a chain that holds blocks,
\* after the envelope was written and before the height index was
C31_Witness ==
    /\ result = "Crashed"
    /\ op = "add_block" /\ info.height >= 2
    /\ KeyType_make_key(KeyType_Block, arg[1].hash) \in DOMAIN db
    /\ get_block_hash(db, arg[1].header.height).err # "Ok"

\* the three records of the block at height h in the store d
RecordsAt(d, h) ==
    {KeyType_make_key(KeyType_BlockHeight, ToLeBytes8(h)),
     KeyType_make_key(KeyType_BlockHeader, get_block_hash(d, h).val),
     KeyType_make_key(KeyType_Block, get_block_hash(d, h).val)}

\* C32: a successful del_top_block at height h removes exactly the height
\* index entry of h and the header record and block envelope of the block at
\* h; every other record of the store (the blocks at 1..h-1, the public
\* keys) and info.network_adjusted_time and info.block_size_cap are as
\* before, and get_block of the removed hash then returns BlockDoesntExist.
C32_DelRemovesExactlyTop ==
    [][(op' = "del_top_block" /\ result' = "Ok")
        => /\ RecordsAt(db, info.height) \subseteq DOMAIN db
           /\ DOMAIN db' = DOMAIN db \ RecordsAt(db, info.height)
           /\ \A k \in DOMAIN db' : db'[k] = db[k]
           /\ info'.network_adjusted_time = info.network_adjusted_time
           /\ info'.block_size_cap = info.block_size_cap
           /\ get_block([info |-> info', db |-> db', randomx_cache |-> randomx_cache'],
                        get_block_hash(db, info.height).val).err
                  = "BlockDoesntExist"]_vars

\* the top block of a chain of three was removed and the records of the
\* two blocks below it are in the store
C32_Witness ==
    /\ op = "del_top_block" /\ result = "Ok" /\ info.height = 2
    /\ RecordsAt(db, 1) \cup RecordsAt(db, 2) \subseteq DOMAIN db
    /\ get_block_hash(db, 3).err = "CantFindHashFromHeight"

\* C33: for every block B, Block::from_bytes(Block::to_bytes(B)) is a block
\* with the entries, the header fields (merkle_root and entry_difficulty
\* among them), the RandomX input and the hash that B holds, none of them
\* computed anew by the decoding.
C33_BlockRoundTrip ==
    [][(op = "Block::to_bytes" /\ result.err = "Ok" /\ op' = "Block::from_bytes")
        => result' = Ok(arg[1])]_vars

\* C34: del_top_block on an empty chain (info.height = 0) returns
\* CantFindHashFromHeight and leaves info and the store as they were, and
\* info.height never goes below 0 under any sequence of add_block and
\* del_top_block.
C34_DelOnEmptyChain ==
    [][/\ (op' = "del_top_block" /\ info.height = 0)
           => /\ result' = "CantFindHashFromHeight"
              /\ info' = info
              /\ db' = db
       /\ info'.height >= 0]_vars

\* del_top_block was turned down on a chain that was rolled back to height 0
C34_Witness ==
    /\ op = "del_top_block" /\ result = "CantFindHashFromHeight"
    /\ info.height = 0 /\ ~info.is_empty

\* C35: the stored headers form one linked chain: the header at height 1
\* has the all-zero previous_hash, the header at every height h in
\* 2..info.height has the hash indexed at h - 1 as its previous_hash, and a
\* chain rolled back to height 0 has the all-zero info.top_block_hash again.
C35_HeadersLinked ==
    /\ \A h \in 1..info.height :
          /\ get_block_hash(db, h).err = "Ok"
          /\ get_block_header(db, get_block_hash(db, h).val).err = "Ok"
          /\ HeaderAt(h).previous_hash
                 = IF h = 1 THEN ZeroHash ELSE get_block_hash(db, h - 1).val
    /\ info.height = 0 => info.top_block_hash = ZeroHash

\* a chain of three linked blocks, the top one added after another top
\* block was removed
C35_Witness ==
    /\ op = "add_block" /\ result = "Ok" /\ info.height = 3 /\ calls >= 5
    /\ HeaderAt(3).previous_hash = get_block_hash(db, 2).val
    /\ HeaderAt(2).previous_hash = get_block_hash(db, 1).val

\* C36: in every state reached by add_block and del_top_block calls
\* info.is_empty is true exactly when info.height = 0, also on a chain that
\* was rolled back to height 0.
C36_EmptyIffHeightZero == info.is_empty <=> info.height = 0

\* C37: after successful add_block and del_top_block calls that leave
\* height >= 2 the divisor of the retargeting is strictly positive (the
\* newest header of the window has a later timestamp than the oldest one),
\* so info.difficulty is a finite positive number and a block can still
\* carry header.difficulty_target == info.difficulty.
C37_RetargetDivisorPositive ==
    (op \in {"add_block", "del_top_block"} /\ result = "Ok" /\ info.height >= 2)
        => /\ HeaderAt(info.height).timestamp > HeaderAt(WindowOldest).timestamp
           /\ BlockTimeSum(WindowOldest, info.height) > 0
           /\ info.difficulty[2] # 0 /\ info.difficulty[1] > 0

\* C38: Node::swap replaces only the configuration, leaving active and both
\* connection counters as they are, and under every interleaving with the
\* connection handlers a configuration that swap has installed is not
\* overwritten afterwards by a handler writing back a copy of the state it
\* loaded before the swap.
C38_SwapKeepsCountersAndStays ==
    [][/\ (swap_state # <<>> /\ swap_state' = <<>>)
           => /\ state'.active = state.active
              /\ state'.node_connections = state.node_connections
              /\ state'.wallet_connections = state.wallet_connections
       /\ state.configuration = SwappedConfiguration
           => state'.configuration = SwappedConfiguration]_vars

\* C39: Entry::from_bytes returns an entry or an error value for every byte
\* string (the empty one, one cut short inside a field, one whose
\* discriminant is neither 0 nor 1): it never aborts and never returns an
\* entry that has neither a public key nor a public key index.
C39_FromBytesTotal ==
    op = "Entry::from_bytes"
        => /\ result.err # "Panic"
           /\ result.err = "Ok"
                  => (result.val.public_key # <<>> \/ result.val.public_key_index # <<>>)

====
